---- MODULE Spec2Model ----
(***************************************************************************)
(* Model of libs/hbb_common/src/config.rs: the persistent configuration    *)
(* subsystem (Identity / network-option / local domains, the keypair       *)
(* singleton, the secret codec and the peer-profile registry).             *)
(*                                                                         *)
(* Strings and byte vectors are sequences of byte values 0..255 (Rust      *)
(* strings are UTF-8 byte sequences); "" is << >>.                         *)
(***************************************************************************)
EXTENDS Integers, Sequences, FiniteSets, TLC

VARIABLES
    CONFIG,        \* cached Identity record              (static CONFIG)
    CONFIG2,       \* cached network-options record       (static CONFIG2)
    LOCAL_CONFIG,  \* cached local record (options map)   (static LOCAL_CONFIG)
    KEY_PAIR,      \* keypair cache: NoPair or <<sk, pk>> (static KEY_PAIR)
    disk,          \* the three domain files as the record store holds them
    last,          \* observation of the last completed accessor call
    keyLock,       \* holder of the KEY_PAIR mutex (0: free)
    rw,            \* the lock of CONFIG and its lazy initialisation
    pc,            \* per thread: position inside get_key_pair
    frame,         \* per thread: the locals of its get_key_pair call
    ret,           \* per thread: value last returned by get_key_pair
    spawned,       \* keypairs handed to background persist threads, not yet run
    gens,          \* history: the circumstances of every gen_keypair call
    codec,         \* secret codec round trip in progress
    pathv,         \* peer filename encode / decode in progress
    peerFiles,     \* the peers directory: path -> [profile, mtime]
    clock,         \* file-system time
    listing,       \* observation of the last PeerConfig::peers() call
    ONLINE,        \* latency table: host -> latency      (static ONLINE)
    PROD_RENDEZVOUS_SERVER,  \* build-injected server override (static)
    loadv          \* Config::load in progress: its environment and result

domVars  == <<CONFIG, CONFIG2, LOCAL_CONFIG, disk, last>>
keyVars  == <<KEY_PAIR, keyLock, rw, pc, frame, ret, spawned, gens>>
peerVars == <<peerFiles, clock, listing>>
rdvVars  == <<ONLINE, PROD_RENDEZVOUS_SERVER>>
vars == <<CONFIG, CONFIG2, LOCAL_CONFIG, KEY_PAIR, disk, last, keyLock, rw, pc,
          frame, ret, spawned, gens, codec, pathv, peerFiles, clock, listing,
          ONLINE, PROD_RENDEZVOUS_SERVER, loadv>>

----------------------------------------------------------------------------
(* Generic helpers                                                         *)

EMPTY == << >>

RECURSIVE SumSeq(_)
SumSeq(s) == IF s = << >> THEN 0 ELSE Head(s) + SumSeq(Tail(s))

\* All sequences over set S of length 0..n.
SeqsUpTo(S, n) == UNION { [1..k -> S] : k \in 0..n }

StartsWith(s, p) == Len(s) >= Len(p) /\ SubSeq(s, 1, Len(p)) = p

Drop(s, n) == SubSeq(s, n + 1, Len(s))

----------------------------------------------------------------------------
(* Secret codec (password_security, imported at config.rs:18-24).          *)
(* Its source is not part of the supplied files: modelled from spec 4.1.   *)
(* The cipher is a keyed byte substitution followed by an authentication   *)
(* byte, so that a ciphertext differs from its plaintext and an arbitrary  *)
(* string fails to decrypt.                                                *)

PASSWORD_ENC_VERSION == <<48, 48>>    \* "00"

Mac(p) == (SumSeq(p) + 3 * Len(p) + 1) % 256

Seal(p) == [i \in 1..Len(p) |-> (p[i] + 7) % 256] \o <<Mac(p)>>

UnsealBody(c) == [i \in 1..(Len(c) - 1) |-> (c[i] + 249) % 256]

UnsealOk(c) == Len(c) >= 1 /\ c[Len(c)] = Mac(UnsealBody(c))

\* mutant: the version tag is left out of the at-rest form
encrypt_untagged(s, version) == Seal(s)

\* encrypt(plain) -> at_rest: always current-version-tagged ciphertext
encrypt_str_or_original(s, version) == version \o Seal(s)

\* decrypt(at_rest) -> <<plain, was_encrypted, needs_rewrite>>
decrypt_str_or_original(s, version) ==
    IF StartsWith(s, version) /\ UnsealOk(Drop(s, Len(version)))
    THEN <<UnsealBody(Drop(s, Len(version))), TRUE, FALSE>>
    ELSE <<s, FALSE, s # << >> >>

\* the byte-sequence variant behaves identically
encrypt_vec_or_original(v, version) == encrypt_str_or_original(v, version)

decrypt_vec_or_original(v, version) == decrypt_str_or_original(v, version)

----------------------------------------------------------------------------
(* Option<T> is a sequence of length 0 (None) or 1 (Some(x)); a HashMap is *)
(* a function on the finite set of its keys.                               *)

None == << >>

Some(x) == <<x>>

MapGet(m, k) == IF k \in DOMAIN m THEN Some(m[k]) ELSE None

MapInsert(m, k, v) == [x \in (DOMAIN m) \cup {k} |-> IF x = k THEN v ELSE m[x]]

MapRemove(m, k) == [x \in (DOMAIN m) \ {k} |-> m[x]]

\* what one accessor call did: the new cache, the records it handed to
\* store_path (in order) and its return value
Outcome(cache, stores, r) == [cache |-> cache, stores |-> stores, ret |-> r]

\* return values: () is the empty tuple, a bool b is <<b>>
Unit == << >>

Bool(b) == <<b>>

----------------------------------------------------------------------------
(* Identity domain: struct Config and its accessors                        *)

EmptyKeyPair == <<EMPTY, EMPTY>>

DefaultConfig ==
    [id |-> EMPTY, enc_id |-> EMPTY, password |-> EMPTY, salt |-> EMPTY,
     key_pair |-> EmptyKeyPair, key_confirmed |-> FALSE, keys_confirmed |-> << >>]

\* Config::store: the record as handed to store_path
Config_store(c) ==
    [c EXCEPT !.password = encrypt_str_or_original(c.password, PASSWORD_ENC_VERSION),
              !.enc_id = encrypt_str_or_original(c.id, PASSWORD_ENC_VERSION),
              !.id = EMPTY]

\* mutant: the equality test is dropped, every call stores
Config_set_unguarded(c, cfg) == Outcome(cfg, <<Config_store(cfg)>>, Bool(TRUE))

Config_set(c, cfg) ==
    IF c = cfg THEN Outcome(c, << >>, Bool(FALSE))
    ELSE Outcome(cfg, <<Config_store(cfg)>>, Bool(TRUE))

Config_get(c) == c

set_id(c, id) ==
    IF id = c.id THEN Outcome(c, << >>, Unit)
    ELSE LET n == [c EXCEPT !.id = id] IN Outcome(n, <<Config_store(n)>>, Unit)

set_permanent_password(c, password) ==
    IF password = c.password THEN Outcome(c, << >>, Unit)
    ELSE LET n == [c EXCEPT !.password = password]
         IN Outcome(n, <<Config_store(n)>>, Unit)

\* mutant: the new salt is stored but the cache keeps the old one
set_salt_cache_stale(c, salt) ==
    IF salt = c.salt THEN Outcome(c, << >>, Unit)
    ELSE Outcome(c, <<Config_store([c EXCEPT !.salt = salt])>>, Unit)

set_salt(c, salt) ==
    IF salt = c.salt THEN Outcome(c, << >>, Unit)
    ELSE LET n == [c EXCEPT !.salt = salt] IN Outcome(n, <<Config_store(n)>>, Unit)

set_key_confirmed(c, v) ==
    IF c.key_confirmed = v THEN Outcome(c, << >>, Unit)
    ELSE LET n == [c EXCEPT !.key_confirmed = v,
                            !.keys_confirmed = IF ~v THEN << >> ELSE @]
         IN Outcome(n, <<Config_store(n)>>, Unit)

----------------------------------------------------------------------------
(* Network-options domain: struct Config2 and its accessors                *)

DefaultConfig2 ==
    [rendezvous_server |-> EMPTY, nat_type |-> 0, serial |-> 0,
     socks |-> None, options |-> << >>]

\* Config2::store: the record as handed to store_path
Config2_store(c) ==
    IF c.socks = None THEN c
    ELSE [c EXCEPT !.socks = Some([c.socks[1] EXCEPT !.password =
              encrypt_str_or_original(c.socks[1].password, PASSWORD_ENC_VERSION)])]

Config2_set(c, cfg) ==
    IF c = cfg THEN Outcome(c, << >>, Bool(FALSE))
    ELSE Outcome(cfg, <<Config2_store(cfg)>>, Bool(TRUE))

set_nat_type(c, nat_type) ==
    IF nat_type = c.nat_type THEN Outcome(c, << >>, Unit)
    ELSE LET n == [c EXCEPT !.nat_type = nat_type]
         IN Outcome(n, <<Config2_store(n)>>, Unit)

set_serial(c, serial) ==
    IF serial = c.serial THEN Outcome(c, << >>, Unit)
    ELSE LET n == [c EXCEPT !.serial = serial]
         IN Outcome(n, <<Config2_store(n)>>, Unit)

set_socks(c, socks) ==
    IF c.socks = socks THEN Outcome(c, << >>, Unit)
    ELSE LET n == [c EXCEPT !.socks = socks]
         IN Outcome(n, <<Config2_store(n)>>, Unit)

get_options(c) == c.options

set_options(c, v) ==
    IF c.options = v THEN Outcome(c, << >>, Unit)
    ELSE LET n == [c EXCEPT !.options = v]
         IN Outcome(n, <<Config2_store(n)>>, Unit)

get_option(c, k) == IF MapGet(c.options, k) # None THEN c.options[k] ELSE EMPTY

\* mutant: an empty value is inserted like any other instead of removing k
set_option_insert_empty(c, k, v) ==
    IF Some(v) # MapGet(c.options, k)
    THEN LET n == [c EXCEPT !.options = MapInsert(@, k, v)]
         IN Outcome(n, <<Config2_store(n)>>, Unit)
    ELSE Outcome(c, << >>, Unit)

set_option(c, k, v) ==
    LET v2 == IF v = EMPTY THEN None ELSE Some(v) IN
    IF v2 # MapGet(c.options, k)
    THEN LET n == [c EXCEPT !.options =
                      IF v2 = None THEN MapRemove(@, k) ELSE MapInsert(@, k, v)]
         IN Outcome(n, <<Config2_store(n)>>, Unit)
    ELSE Outcome(c, << >>, Unit)

----------------------------------------------------------------------------
(* Local domain: struct LocalConfig (its options map)                      *)

DefaultLocalConfig == [options |-> << >>]

\* LocalConfig::store writes the record as it is
LocalConfig_store(c) == c

LocalConfig_get_option(c, k) ==
    IF MapGet(c.options, k) # None THEN c.options[k] ELSE EMPTY

LocalConfig_set_option(c, k, v) ==
    LET v2 == IF v = EMPTY THEN None ELSE Some(v) IN
    IF v2 # MapGet(c.options, k)
    THEN LET n == [c EXCEPT !.options =
                      IF v2 = None THEN MapRemove(@, k) ELSE MapInsert(@, k, v)]
         IN Outcome(n, <<LocalConfig_store(n)>>, Unit)
    ELSE Outcome(c, << >>, Unit)

----------------------------------------------------------------------------
(* Record store: one file per domain; NoFile or Some(record)               *)

\* Config::store_: the records are handed to store_path in order; a failing
\* write is logged and dropped, the file keeps what it held
store_(file, stores, ok) ==
    IF ok /\ stores # << >> THEN Some(stores[Len(stores)]) ELSE file

\* the content of a file that does not deserialize into the record type
Garbage == [garbage |-> TRUE]

\* Config::load_ / load_path: the default record on a missing file and on
\* one that does not deserialize
load_(file, default) ==
    IF file = None \/ file[1] = Garbage THEN default ELSE file[1]

----------------------------------------------------------------------------
(* Input values of the accessor calls                                      *)

Str_1 == <<49>>          \* "1"
Str_a == <<97>>          \* "a"
Str_b == <<98>>          \* "b"
Str_h == <<104>>         \* "h"
Str_p == <<112>>         \* "p"
Str_s == <<115>>         \* "s"

KeyPair1 == <<(<<1>>), (<<101>>)>>

IdValues == {EMPTY, Str_1}
PasswordValues == {EMPTY, Str_p}
SaltValues == {EMPTY, Str_s}
Hosts == {"h1"}
HostMaps == {<< >>, [h \in Hosts |-> TRUE]}
NatTypes == {0, 1}
Serials == {0, 4}
Socks1 == [proxy |-> Str_h, username |-> EMPTY, password |-> Str_p]
SocksValues == {None, Some(Socks1)}
OptionKeys == {"k1"}
OptionValues == {EMPTY, Str_a, Str_b}
OptionMaps == UNION { [K -> OptionValues] : K \in SUBSET OptionKeys }
\* outcomes of store_path: every write accepted / a write may fail
Writable == {TRUE}
Unreliable == BOOLEAN

\* arguments of Config::set: clones obtained by Config::get with fields changed
ConfigValues ==
    [id : IdValues, enc_id : {encrypt_str_or_original(Str_1, PASSWORD_ENC_VERSION)},
     password : PasswordValues, salt : SaltValues, key_pair : {KeyPair1},
     key_confirmed : BOOLEAN, keys_confirmed : HostMaps]

Config2Values ==
    [rendezvous_server : {EMPTY, Str_h}, nat_type : NatTypes, serial : Serials,
     socks : SocksValues, options : OptionMaps]

----------------------------------------------------------------------------
(* Accessor calls as actions: the whole call runs under the domain's write *)
(* lock, so it is one step.                                                *)

\* the arguments of a call, one slot per argument type
NoArg ==
    [cfg |-> DefaultConfig, cfg2 |-> DefaultConfig2, str |-> EMPTY, int |-> 0,
     bool |-> FALSE, map |-> << >>, socks |-> None, k |-> ""]

\* what a caller (or a test double of the record store) sees of one call:
\* the arguments, the return value, the number of store_path calls; for
\* set_option also the entry k had before the call
Observed(op, arg, pre, o) ==
    [op |-> op, arg |-> arg, pre |-> pre, ret |-> o.ret, wr |-> Len(o.stores)]

\* mutant: a failing write rolls the cache back
CallConfig_rollback(op, arg, pre, o, ok) ==
    /\ CONFIG' = IF ok THEN o.cache ELSE CONFIG
    /\ disk' = [disk EXCEPT !.cfg = store_(@, o.stores, ok)]
    /\ last' = Observed(op, arg, pre, o)
    /\ UNCHANGED <<CONFIG2, LOCAL_CONFIG>>

CallConfig(op, arg, pre, o, ok) ==
    /\ CONFIG' = o.cache
    /\ disk' = [disk EXCEPT !.cfg = store_(@, o.stores, ok)]
    /\ last' = Observed(op, arg, pre, o)
    /\ UNCHANGED <<CONFIG2, LOCAL_CONFIG>>

CallConfig2(op, arg, pre, o, ok) ==
    /\ CONFIG2' = o.cache
    /\ disk' = [disk EXCEPT !.cfg2 = store_(@, o.stores, ok)]
    /\ last' = Observed(op, arg, pre, o)
    /\ UNCHANGED <<CONFIG, LOCAL_CONFIG>>

CallLocalConfig(op, arg, pre, o, ok) ==
    /\ LOCAL_CONFIG' = o.cache
    /\ disk' = [disk EXCEPT !.local = store_(@, o.stores, ok)]
    /\ last' = Observed(op, arg, pre, o)
    /\ UNCHANGED <<CONFIG, CONFIG2>>

notDom == <<KEY_PAIR, keyLock, rw, pc, frame, ret, spawned, gens, codec, pathv,
            peerFiles, clock, listing, ONLINE, PROD_RENDEZVOUS_SERVER, loadv>>

Call_Config_set(oks) ==
    \E cfg \in ConfigValues, ok \in oks :
        CallConfig("Config_set", [NoArg EXCEPT !.cfg = cfg], None, Config_set(CONFIG, cfg), ok) /\ UNCHANGED notDom

Call_Config2_set(oks) ==
    \E cfg \in Config2Values, ok \in oks :
        CallConfig2("Config2_set", [NoArg EXCEPT !.cfg2 = cfg], None, Config2_set(CONFIG2, cfg), ok) /\ UNCHANGED notDom

Call_set_id(oks) ==
    \E id \in IdValues, ok \in oks :
        CallConfig("set_id", [NoArg EXCEPT !.str = id], None, set_id(CONFIG, id), ok) /\ UNCHANGED notDom

Call_set_permanent_password(oks) ==
    \E v \in PasswordValues, ok \in oks :
        CallConfig("set_permanent_password", [NoArg EXCEPT !.str = v], None,
                   set_permanent_password(CONFIG, v), ok)
        /\ UNCHANGED notDom

Call_set_salt(oks) ==
    \E v \in SaltValues, ok \in oks :
        CallConfig("set_salt", [NoArg EXCEPT !.str = v], None, set_salt(CONFIG, v), ok) /\ UNCHANGED notDom

Call_set_key_confirmed(oks) ==
    \E v \in BOOLEAN, ok \in oks :
        CallConfig("set_key_confirmed", [NoArg EXCEPT !.bool = v], None,
                   set_key_confirmed(CONFIG, v), ok)
        /\ UNCHANGED notDom

Call_set_nat_type(oks) ==
    \E v \in NatTypes, ok \in oks :
        CallConfig2("set_nat_type", [NoArg EXCEPT !.int = v], None, set_nat_type(CONFIG2, v), ok) /\ UNCHANGED notDom

Call_set_serial(oks) ==
    \E v \in Serials, ok \in oks :
        CallConfig2("set_serial", [NoArg EXCEPT !.int = v], None, set_serial(CONFIG2, v), ok) /\ UNCHANGED notDom

Call_set_socks(oks) ==
    \E v \in SocksValues, ok \in oks :
        CallConfig2("set_socks", [NoArg EXCEPT !.socks = v], None, set_socks(CONFIG2, v), ok) /\ UNCHANGED notDom

Call_set_options(oks) ==
    \E v \in OptionMaps, ok \in oks :
        CallConfig2("set_options", [NoArg EXCEPT !.map = v], None, set_options(CONFIG2, v), ok) /\ UNCHANGED notDom

Call_set_option(oks) ==
    \E k \in OptionKeys, v \in OptionValues, ok \in oks :
        /\ CallConfig2("set_option", [NoArg EXCEPT !.k = k, !.str = v], MapGet(CONFIG2.options, k),
                       set_option(CONFIG2, k, v), ok)
        /\ UNCHANGED notDom

Call_LocalConfig_set_option(oks) ==
    \E k \in OptionKeys, v \in OptionValues, ok \in oks :
        /\ CallLocalConfig("LocalConfig_set_option", [NoArg EXCEPT !.k = k, !.str = v],
                           MapGet(LOCAL_CONFIG.options, k),
                           LocalConfig_set_option(LOCAL_CONFIG, k, v), ok)
        /\ UNCHANGED notDom

----------------------------------------------------------------------------
(* Initial values of the parts a specification does not exercise           *)

NoCall == [op |-> "none", arg |-> NoArg, pre |-> None, ret |-> Unit, wr |-> 0]

InitDomIdle ==
    /\ CONFIG = DefaultConfig
    /\ CONFIG2 = DefaultConfig2
    /\ LOCAL_CONFIG = DefaultLocalConfig
    /\ disk = [cfg |-> None, cfg2 |-> None, local |-> None]
    /\ last = NoCall

\* CONFIG is initialised, nobody holds or requests its lock
NoLocks ==
    [init |-> "done", by |-> 0, policy |-> "readers", readers |-> << >>,
     writer |-> 0]

InitKeyIdle ==
    /\ KEY_PAIR = None
    /\ keyLock = 0
    /\ rw = NoLocks
    /\ pc = << >>
    /\ frame = << >>
    /\ ret = << >>
    /\ spawned = {}
    /\ gens = << >>

NoOutput == <<EMPTY, FALSE, FALSE>>

InitCodecIdle ==
    codec = [pc |-> "idle", s |-> EMPTY, at_rest |-> EMPTY, out |-> NoOutput]

InitPathIdle ==
    pathv = [pc |-> "idle", idA |-> << >>, idB |-> << >>,
             fileA |-> << >>, fileB |-> << >>, decA |-> << >>]

NoListing == [pc |-> "idle", before |-> {}, failed |-> {}, result |-> << >>]

InitPeersIdle ==
    /\ peerFiles = {}
    /\ clock = 0
    /\ listing = NoListing

InitRendezvousIdle ==
    /\ ONLINE = << >>
    /\ PROD_RENDEZVOUS_SERVER = EMPTY

NoLoad ==
    [file |-> None, mtime |-> 0, exe_time |-> 0, macs |-> << >>, tries |-> 0]

InitLoadIdle == loadv = NoLoad

----------------------------------------------------------------------------------------------------------------------------------------
(* SpecSet: whole-record replacement, Config::set and Config2::set         *)
(* SpecSetters: the single-field setters of the three domains              *)
(* Both take the record store to accept every write.                       *)

\* the caches hold what load() made of the files
InitDomains ==
    /\ \E c \in {x \in ConfigValues : x.id = Str_1 /\ x.salt = EMPTY} :
           /\ CONFIG = c
           /\ \E o \in {x \in OptionMaps : \A k \in DOMAIN x : x[k] # EMPTY} :
                 /\ CONFIG2 = [DefaultConfig2 EXCEPT !.options = o]
                 /\ LOCAL_CONFIG = [options |-> o]
                 /\ disk = [cfg |-> Some(Config_store(c)),
                            cfg2 |-> Some(Config2_store(CONFIG2)),
                            local |-> Some(LocalConfig_store(LOCAL_CONFIG))]
    /\ last = NoCall
    /\ InitKeyIdle /\ InitCodecIdle /\ InitPathIdle /\ InitPeersIdle
    /\ InitRendezvousIdle /\ InitLoadIdle

NextSet ==
    \/ Call_Config_set(Writable)
    \/ Call_Config2_set(Writable)

SpecSet == InitDomains /\ [][NextSet]_vars

NextSetters ==
    \/ Call_set_id(Writable)
    \/ Call_set_permanent_password(Writable)
    \/ Call_set_salt(Writable)
    \/ Call_set_key_confirmed(Writable)
    \/ Call_set_nat_type(Writable)
    \/ Call_set_serial(Writable)
    \/ Call_set_socks(Writable)
    \/ Call_set_options(Writable)
    \/ Call_set_option(Writable)
    \/ Call_LocalConfig_set_option(Writable)

SpecSetters == InitDomains /\ [][NextSetters]_vars

----------------------------------------------------------------------------
(* Claims about set and the setters                                        *)

\* C3: Config::set / Config2::set with a value equal to the cached one
\* returns false, leaves the cache unchanged and makes no record-store write;
\* with a different value it replaces the cache, makes exactly one
\* record-store write (of the stored form of the new value) and returns true.
SetContract(pre, post, arg, fileBefore, fileAfter, stored, obs) ==
    IF arg = pre
    THEN obs.ret = Bool(FALSE) /\ post = pre /\ obs.wr = 0 /\ fileAfter = fileBefore
    ELSE obs.ret = Bool(TRUE) /\ post = arg /\ obs.wr = 1 /\ fileAfter = Some(stored)

C3_SetChangeDetection ==
    [][ /\ last'.op = "Config_set" =>
              SetContract(CONFIG, CONFIG', last'.arg.cfg, disk.cfg, disk'.cfg,
                          Config_store(last'.arg.cfg), last')
        /\ last'.op = "Config2_set" =>
              SetContract(CONFIG2, CONFIG2', last'.arg.cfg2, disk.cfg2, disk'.cfg2,
                          Config2_store(last'.arg.cfg2), last') ]_vars

C3_Witness ==
    /\ last.op = "Config2_set" /\ last.ret = Bool(TRUE) /\ last.wr = 1
    /\ CONFIG2 = last.arg.cfg2 /\ last.arg.cfg2.socks # None
    /\ disk.cfg2 = Some(Config2_store(last.arg.cfg2))

\* C4: after set_option(k, "") (Config and LocalConfig), whatever k was
\* mapped to before, k is absent from the options map and get_option(k)
\* returns the empty string.
C4_SetOptionEmptyRemoves ==
    /\ (last.op = "set_option" /\ last.arg.str = EMPTY) =>
          /\ last.arg.k \notin DOMAIN CONFIG2.options
          /\ get_option(CONFIG2, last.arg.k) = EMPTY
    /\ (last.op = "LocalConfig_set_option" /\ last.arg.str = EMPTY) =>
          /\ last.arg.k \notin DOMAIN LOCAL_CONFIG.options
          /\ LocalConfig_get_option(LOCAL_CONFIG, last.arg.k) = EMPTY

\* k was mapped to the empty string (by set_options) when set_option(k, "") ran
C4_Witness ==
    /\ last.op = "set_option" /\ last.arg.str = EMPTY
    /\ last.pre = Some(EMPTY) /\ last.wr = 1

\* C5: each single-field setter called with the cached value leaves the
\* cache unchanged and makes no record-store write; called with a different
\* value it updates the cache and makes exactly one record-store write.
SetterContract(pre, post, same, updated, obs) ==
    IF same THEN post = pre /\ obs.wr = 0 ELSE updated /\ obs.wr = 1

C5_SetterChangeDetection ==
    [][ LET a == last'.arg IN
        /\ last'.op = "set_id" =>
              SetterContract(CONFIG, CONFIG', a.str = CONFIG.id, CONFIG'.id = a.str, last')
        /\ last'.op = "set_permanent_password" =>
              SetterContract(CONFIG, CONFIG', a.str = CONFIG.password,
                             CONFIG'.password = a.str, last')
        /\ last'.op = "set_salt" =>
              SetterContract(CONFIG, CONFIG', a.str = CONFIG.salt,
                             CONFIG'.salt = a.str, last')
        /\ last'.op = "set_key_confirmed" =>
              SetterContract(CONFIG, CONFIG', a.bool = CONFIG.key_confirmed,
                             CONFIG'.key_confirmed = a.bool, last')
        /\ last'.op = "set_nat_type" =>
              SetterContract(CONFIG2, CONFIG2', a.int = CONFIG2.nat_type,
                             CONFIG2'.nat_type = a.int, last')
        /\ last'.op = "set_serial" =>
              SetterContract(CONFIG2, CONFIG2', a.int = CONFIG2.serial,
                             CONFIG2'.serial = a.int, last')
        /\ last'.op = "set_socks" =>
              SetterContract(CONFIG2, CONFIG2', a.socks = CONFIG2.socks,
                             CONFIG2'.socks = a.socks, last')
        /\ last'.op = "set_options" =>
              SetterContract(CONFIG2, CONFIG2', a.map = CONFIG2.options,
                             CONFIG2'.options = a.map, last')
        /\ (last'.op = "set_option" /\ a.str # EMPTY) =>
              SetterContract(CONFIG2, CONFIG2', MapGet(CONFIG2.options, a.k) = Some(a.str),
                             MapGet(CONFIG2'.options, a.k) = Some(a.str), last') ]_vars

C5_Witness ==
    /\ last.op = "set_salt" /\ last.wr = 1 /\ CONFIG.salt = last.arg.str
    /\ disk.cfg = Some(Config_store(CONFIG))

----------------------------------------------------------------------------
(* SpecCodec: a string is encrypted for storage (Config::store) and the    *)
(* at-rest form decrypted again (Config::load).                            *)

MaxLen == 3

CodecChars == {48, 97, 112}      \* '0', 'a', 'p'

PlainInputs == SeqsUpTo(CodecChars, MaxLen)

\* plain strings, and strings that are themselves at-rest forms
CodecInputs ==
    PlainInputs \cup
    { encrypt_str_or_original(x, PASSWORD_ENC_VERSION) : x \in PlainInputs }

InitCodec ==
    /\ \E x \in CodecInputs :
          codec = [pc |-> "start", s |-> x, at_rest |-> EMPTY, out |-> NoOutput]
    /\ InitDomIdle /\ InitKeyIdle /\ InitPathIdle /\ InitPeersIdle
    /\ InitRendezvousIdle /\ InitLoadIdle

CodecEncrypt ==
    /\ codec.pc = "start"
    /\ codec' = [codec EXCEPT !.pc = "encrypted",
                   !.at_rest = encrypt_str_or_original(codec.s, PASSWORD_ENC_VERSION)]
    /\ UNCHANGED <<domVars, keyVars, pathv, peerVars, rdvVars, loadv>>

CodecDecrypt ==
    /\ codec.pc = "encrypted"
    /\ codec' = [codec EXCEPT !.pc = "decrypted",
                   !.out = decrypt_str_or_original(codec.at_rest, PASSWORD_ENC_VERSION)]
    /\ UNCHANGED <<domVars, keyVars, pathv, peerVars, rdvVars, loadv>>

NextCodec == CodecEncrypt \/ CodecDecrypt

SpecCodec == InitCodec /\ [][NextCodec]_vars

\* C6: decrypting the result of encrypting s with the current version tag
\* returns plain = s, was_encrypted = true, needs_rewrite = false.
C6_DecryptEncrypt ==
    codec.pc = "decrypted" => codec.out = <<codec.s, TRUE, FALSE>>

\* the round trip of a string that is itself an at-rest form
C6_Witness ==
    /\ codec.pc = "decrypted"
    /\ decrypt_str_or_original(codec.s, PASSWORD_ENC_VERSION)[2]
    /\ codec.at_rest # codec.s

----------------------------------------------------------------------------
(* SpecKeyPair: threads calling Config::get_key_pair, and the background   *)
(* threads it spawns to persist a generated pair into the Identity record. *)

NThreads == 2

NKeys == 2

Threads == 1..NThreads

\* the pairs sign::gen_keypair() may return: <<sk, pk>>
GenPairs == { <<(<<k>>), (<<100 + k>>)>> : k \in 1..NKeys }

\* a pair stored by an earlier run of the program
KeyPair0 == <<(<<9>>), (<<109>>)>>

NoFrame ==
    [hit |-> None, file_key |-> EmptyKeyPair, key_pair |-> EmptyKeyPair,
     generated |-> FALSE]

\* mutant: the mutex does not exclude a second holder
Mutex_never_blocks(holder) == TRUE

\* KEY_PAIR.lock(): blocks while another thread holds the mutex
Mutex_available(holder) == holder = 0

\* mutant: the generated pair is returned but the cache stays empty
cache_left_empty(key_pair) == None

\* mutant: the cache is filled with the pair read from the file, not the
\* generated one
cache_populated_unset(key_pair) == Some(EmptyKeyPair)

\* *lock = Some(config.key_pair.clone())
cache_populated(key_pair) == Some(key_pair)

InitKeyPair ==
    /\ \E present \in BOOLEAN, kp \in {EmptyKeyPair, KeyPair0} :
          LET c == [DefaultConfig EXCEPT !.id = Str_1, !.key_pair = kp] IN
          /\ disk = [cfg |-> IF present THEN Some(Config_store(c)) ELSE None,
                     cfg2 |-> None, local |-> None]
          /\ CONFIG = IF present THEN c ELSE [c EXCEPT !.key_pair = EmptyKeyPair]
    /\ CONFIG2 = DefaultConfig2
    /\ LOCAL_CONFIG = DefaultLocalConfig
    /\ last = NoCall
    /\ KEY_PAIR = None
    /\ keyLock = 0
    /\ rw = NoLocks
    /\ pc = [t \in Threads |-> "idle"]
    /\ frame = [t \in Threads |-> NoFrame]
    /\ ret = [t \in Threads |-> None]
    /\ spawned = {}
    /\ gens = << >>
    /\ InitCodecIdle /\ InitPathIdle /\ InitPeersIdle
    /\ InitRendezvousIdle /\ InitLoadIdle

notKey == <<CONFIG2, LOCAL_CONFIG, last, codec, pathv, peerFiles, clock, listing,
            ONLINE, PROD_RENDEZVOUS_SERVER, loadv, rw>>

\* a thread enters get_key_pair
gkp_call(t) ==
    /\ pc[t] \in {"idle", "done"}
    /\ pc' = [pc EXCEPT ![t] = "wait"]
    /\ frame' = [frame EXCEPT ![t] = NoFrame]
    /\ UNCHANGED <<KEY_PAIR, keyLock, ret, spawned, gens, CONFIG, disk, notKey>>

\* let mut lock = KEY_PAIR.lock().unwrap();
gkp_lock(t) ==
    /\ pc[t] = "wait"
    /\ Mutex_available(keyLock)
    /\ keyLock' = t
    /\ pc' = [pc EXCEPT ![t] = "locked"]
    /\ UNCHANGED <<KEY_PAIR, frame, ret, spawned, gens, CONFIG, disk, notKey>>

\* if let Some(p) = lock.as_ref() { return p.clone(); }   (the guard drops)
gkp_hit(t) ==
    /\ pc[t] = "locked"
    /\ KEY_PAIR # None
    /\ frame' = [frame EXCEPT ![t].hit = KEY_PAIR]
    /\ ret' = [ret EXCEPT ![t] = KEY_PAIR]
    /\ keyLock' = IF keyLock = t THEN 0 ELSE keyLock
    /\ pc' = [pc EXCEPT ![t] = "done"]
    /\ UNCHANGED <<KEY_PAIR, spawned, gens, CONFIG, disk, notKey>>

\* let mut config = Config::load_::<Config>("");
gkp_load(t) ==
    /\ pc[t] = "locked"
    /\ KEY_PAIR = None
    /\ LET k == load_(disk.cfg, DefaultConfig).key_pair IN
       frame' = [frame EXCEPT ![t].file_key = k, ![t].key_pair = k]
    /\ pc' = [pc EXCEPT ![t] = "loaded"]
    /\ UNCHANGED <<KEY_PAIR, keyLock, ret, spawned, gens, CONFIG, disk, notKey>>

\* if config.key_pair.0.is_empty() { gen_keypair(); config.key_pair = ..; spawn }
gkp_generate(t) ==
    /\ pc[t] = "loaded"
    /\ frame[t].key_pair[1] = EMPTY
    /\ \E kp \in GenPairs :
          /\ frame' = [frame EXCEPT ![t].key_pair = kp, ![t].generated = TRUE]
          /\ spawned' = spawned \cup {kp}
          /\ gens' = Append(gens, [by |-> t, cache |-> KEY_PAIR,
                                   file_key |-> frame[t].file_key, pair |-> kp,
                                   waiting |-> {u \in Threads : pc[u] = "wait"}])
    /\ pc' = [pc EXCEPT ![t] = "ready"]
    /\ UNCHANGED <<KEY_PAIR, keyLock, ret, CONFIG, disk, notKey>>

\* the stored pair is kept
gkp_keep(t) ==
    /\ pc[t] = "loaded"
    /\ frame[t].key_pair[1] # EMPTY
    /\ pc' = [pc EXCEPT ![t] = "ready"]
    /\ UNCHANGED <<KEY_PAIR, keyLock, frame, ret, spawned, gens, CONFIG, disk, notKey>>

\* *lock = Some(config.key_pair.clone()); return config.key_pair;
gkp_return(t) ==
    /\ pc[t] = "ready"
    /\ KEY_PAIR' = cache_populated(frame[t].key_pair)
    /\ ret' = [ret EXCEPT ![t] = Some(frame[t].key_pair)]
    /\ keyLock' = IF keyLock = t THEN 0 ELSE keyLock
    /\ pc' = [pc EXCEPT ![t] = "done"]
    /\ UNCHANGED <<frame, spawned, gens, CONFIG, disk, notKey>>

\* the spawned thread: CONFIG.write(); config.key_pair = key_pair; config.store()
persist_key_pair(oks) ==
    \E kp \in spawned, ok \in oks :
        /\ CONFIG' = [CONFIG EXCEPT !.key_pair = kp]
        /\ disk' = [disk EXCEPT !.cfg = store_(@, <<Config_store(CONFIG')>>, ok)]
        /\ spawned' = spawned \ {kp}
        /\ UNCHANGED <<KEY_PAIR, keyLock, pc, frame, ret, gens, notKey>>

NextKeyPair ==
    \/ \E t \in Threads : gkp_call(t)
    \/ \E t \in Threads : gkp_lock(t)
    \/ \E t \in Threads : gkp_hit(t)
    \/ \E t \in Threads : gkp_load(t)
    \/ \E t \in Threads : gkp_generate(t)
    \/ \E t \in Threads : gkp_keep(t)
    \/ \E t \in Threads : gkp_return(t)
    \/ persist_key_pair(Unreliable)

SpecKeyPair == InitKeyPair /\ [][NextKeyPair]_vars

\* C1: all threads calling get_key_pair while the cache is still empty
\* return the same (secret, public) pair, under every interleaving.
C1_SamePair ==
    \A t1, t2 \in Threads :
        (ret[t1] # None /\ ret[t2] # None) => ret[t1] = ret[t2]

\* two calls have returned a freshly generated pair, one of them having
\* waited for the mutex while the other generated it
C1_Witness ==
    /\ Len(gens) = 1 /\ gens[1].waiting # {}
    /\ \A t \in Threads : pc[t] = "done" /\ ret[t] = Some(gens[1].pair)

\* C2: a keypair is generated at most once per process, and only when the
\* cache is empty and the Identity record read from the record store has an
\* empty secret key; otherwise the stored pair is returned, not a new one.
C2_GenerateOnce ==
    /\ Len(gens) <= 1
    /\ \A i \in 1..Len(gens) :
          gens[i].cache = None /\ gens[i].file_key[1] = EMPTY
    /\ \A t \in Threads : pc[t] = "done" =>
          IF frame[t].hit # None
          THEN ret[t] = frame[t].hit /\ ~frame[t].generated
          ELSE IF frame[t].file_key[1] # EMPTY
               THEN ret[t] = Some(frame[t].file_key) /\ ~frame[t].generated
               ELSE frame[t].generated /\ ret[t] = Some(gens[1].pair)

\* one call generated, a later call in the same process returned the cached
\* pair although the background persist never reached the file
C2_Witness ==
    /\ Len(gens) = 1
    /\ spawned = {} /\ load_(disk.cfg, DefaultConfig).key_pair = EmptyKeyPair
    /\ \E t \in Threads : pc[t] = "done" /\ frame[t].hit = Some(gens[1].pair)

----------------------------------------------------------------------------
(* Peer profile file names: PeerConfig::path and the decoding of a file    *)
(* stem in PeerConfig::peers.  Strings are byte sequences; a path is the   *)
(* sequence of its components below the configuration directory.           *)

PEERS == <<112, 101, 101, 114, 115>>                    \* "peers"

Base64Prefix == <<98, 97, 115, 101, 54, 52, 95>>        \* "base64_"

TomlExt == <<46, 116, 111, 109, 108>>                   \* ".toml"

\* the character class of the regex .*[<>:/\\|\?\*].*
forbidden_paths == {60, 62, 58, 47, 92, 124, 63, 42}

is_match(id) == \E i \in 1..Len(id) : id[i] \in forbidden_paths

\* base64::Variant::Original: A-Z a-z 0-9 + / with '=' padding
B64Char(v) ==
    IF v < 26 THEN 65 + v
    ELSE IF v < 52 THEN 71 + v
    ELSE IF v < 62 THEN v - 4
    ELSE IF v = 62 THEN 43 ELSE 47

B64Val(c) ==
    IF c \in 65..90 THEN c - 65
    ELSE IF c \in 97..122 THEN c - 71
    ELSE IF c \in 48..57 THEN c + 4
    ELSE IF c = 43 THEN 62
    ELSE IF c = 47 THEN 63 ELSE -1

RECURSIVE base64_encode(_)
base64_encode(b) ==
    IF Len(b) = 0 THEN << >>
    ELSE IF Len(b) = 1 THEN
        <<B64Char(b[1] \div 4), B64Char((b[1] % 4) * 16), 61, 61>>
    ELSE IF Len(b) = 2 THEN
        <<B64Char(b[1] \div 4), B64Char((b[1] % 4) * 16 + b[2] \div 16),
          B64Char((b[2] % 16) * 4), 61>>
    ELSE
        <<B64Char(b[1] \div 4), B64Char((b[1] % 4) * 16 + b[2] \div 16),
          B64Char((b[2] % 16) * 4 + b[3] \div 64), B64Char(b[3] % 64)>>
        \o base64_encode(Drop(b, 3))

\* the decoder's scan: consume alphabet characters, emit a byte per 8 bits
RECURSIVE b64_scan(_, _, _, _, _)
b64_scan(s, pos, acc, acc_len, out) ==
    IF pos > Len(s) \/ B64Val(s[pos]) < 0
    THEN [pos |-> pos, acc |-> acc, acc_len |-> acc_len, out |-> out]
    ELSE LET a == acc * 64 + B64Val(s[pos])
             n == acc_len + 6
         IN  IF n >= 8
             THEN b64_scan(s, pos + 1, a % (2 ^ (n - 8)), n - 8,
                           Append(out, a \div (2 ^ (n - 8))))
             ELSE b64_scan(s, pos + 1, a, n, out)

\* base64::decode: Some(bytes), or None on an error: left-over bits, missing
\* or wrong padding, or any character after the padding
base64_decode(s) ==
    LET r == b64_scan(s, 1, 0, 0, << >>)
        pad == r.acc_len \div 2
        end == r.pos + pad - 1
    IN  IF r.acc_len > 4 \/ r.acc # 0 THEN None
        ELSE IF end # Len(s) THEN None
        ELSE IF \E i \in r.pos..end : s[i] # 61 THEN None
        ELSE Some(r.out)

\* String::from_utf8_lossy on the decoded bytes: ASCII is kept, a byte that
\* is not is replaced by U+FFFD (every name decoded here yields ASCII)
RECURSIVE from_utf8_lossy(_)
from_utf8_lossy(b) ==
    IF b = << >> THEN << >>
    ELSE (IF Head(b) < 128 THEN <<Head(b)>> ELSE <<239, 191, 189>>)
         \o from_utf8_lossy(Tail(b))

\* the components of a relative path string: split at '/', empty ones dropped
RECURSIVE SplitPath(_, _, _)
SplitPath(s, cur, out) ==
    IF s = << >> THEN (IF cur = << >> THEN out ELSE Append(out, cur))
    ELSE IF Head(s) = 47
         THEN SplitPath(Tail(s), << >>, IF cur = << >> THEN out ELSE Append(out, cur))
         ELSE SplitPath(Tail(s), Append(cur, Head(s)), out)

\* Config::with_extension: ".toml" is appended to the file name, after its
\* existing extension if it has one
with_extension(path) ==
    IF path = << >> THEN path ELSE [path EXCEPT ![Len(path)] = @ \o TomlExt]

\* PeerConfig::path, relative to the configuration directory
PeerConfig_path(id) ==
    LET id_encoded == IF is_match(id)
                      THEN Base64Prefix \o base64_encode(id)
                      ELSE id
    IN  with_extension(<<PEERS>> \o SplitPath(id_encoded, << >>, << >>))

RECURSIVE LastDot(_)
LastDot(name) ==
    IF name = << >> THEN 0
    ELSE IF name[Len(name)] = 46 THEN Len(name)
    ELSE LastDot(SubSeq(name, 1, Len(name) - 1))

\* Path::extension / Path::file_stem of a file name
extension(name) ==
    IF LastDot(name) <= 1 THEN None ELSE Some(Drop(name, LastDot(name)))

file_stem(name) ==
    IF LastDot(name) <= 1 THEN name ELSE SubSeq(name, 1, LastDot(name) - 1)

\* the id PeerConfig::peers derives from a file stem
id_decoded_string(id) ==
    IF StartsWith(id, Base64Prefix) /\ Len(id) # 7
    THEN LET d == base64_decode(Drop(id, 7))
         IN  from_utf8_lossy(IF d = None THEN << >> ELSE d[1])
    ELSE id

----------------------------------------------------------------------------
(* SpecPath: PeerConfig::path applied to two peer ids, and the file name   *)
(* of the first decoded again as PeerConfig::peers decodes it.             *)

MaxIdLen == 2

IdChars == {97, 47, 63}          \* 'a', '/', '?'

BaseIds == SeqsUpTo(IdChars, MaxIdLen) \ {<< >>}

PeerIds ==
    BaseIds \cup { Base64Prefix \o x : x \in BaseIds }
            \cup { Base64Prefix \o base64_encode(x) : x \in BaseIds }

InitPath ==
    /\ \E a \in PeerIds, b \in PeerIds :
          pathv = [pc |-> "init", idA |-> a, idB |-> b,
                   fileA |-> << >>, fileB |-> << >>, decA |-> << >>]
    /\ InitDomIdle /\ InitKeyIdle /\ InitCodecIdle /\ InitPeersIdle
    /\ InitRendezvousIdle /\ InitLoadIdle

notPath ==
    <<CONFIG, CONFIG2, LOCAL_CONFIG, disk, last, KEY_PAIR, keyLock, rw, pc, frame,
      ret, spawned, gens, codec, peerFiles, clock, listing, ONLINE,
      PROD_RENDEZVOUS_SERVER, loadv>>

PathEncode ==
    /\ pathv.pc = "init"
    /\ pathv' = [pathv EXCEPT !.pc = "encoded",
                              !.fileA = PeerConfig_path(pathv.idA),
                              !.fileB = PeerConfig_path(pathv.idB)]
    /\ UNCHANGED notPath

PathDecode ==
    /\ pathv.pc = "encoded"
    /\ pathv' = [pathv EXCEPT
                   !.pc = "decoded",
                   !.decA = id_decoded_string(
                                file_stem(pathv.fileA[Len(pathv.fileA)]))]
    /\ UNCHANGED notPath

NextPath == PathEncode \/ PathDecode

SpecPath == InitPath /\ [][NextPath]_vars

\* C7: for every peer id the file name produced by PeerConfig::path decodes
\* back, by the rule of PeerConfig::peers, to exactly the id; and an id with
\* no reserved character is used as the file name unchanged.
C7_PathRoundTrip ==
    pathv.pc = "decoded" =>
        /\ pathv.decA = pathv.idA
        /\ ~is_match(pathv.idA) => pathv.fileA = <<PEERS, pathv.idA \o TomlExt>>

\* C8: two distinct peer ids never get the same file path.
C8_PathInjective ==
    (pathv.pc # "init" /\ pathv.idA # pathv.idB) => pathv.fileA # pathv.fileB

----------------------------------------------------------------------------
(* SpecPeers: the peer profile directory.  peerFiles is the set of files   *)
(* below the configuration directory: path, record at rest, modification   *)
(* time, and (for the statement of the claims) the id it was stored under. *)
(* Of PeerConfig the password and info.platform are kept.  Loading a       *)
(* missing file yields the default record.                                 *)

MaxTime == 2

Str_linux == <<108, 105, 110, 117, 120>>      \* "linux"

DefaultPeerConfig ==
    [password |-> EMPTY, options |-> << >>, info |-> [platform |-> EMPTY]]

PeerConfigValues ==
    [password : {EMPTY, Str_p}, options : {<< >>},
     info : [platform : {EMPTY, Str_linux}]]

\* ids of the peers connected to: plain, with a reserved character, and two
\* that begin with "base64_"
ListedIds ==
    {Str_a, Str_a \o <<47>>, Base64Prefix \o Str_a,
     Base64Prefix \o base64_encode(Str_a \o <<47>>)}

Exists(files, path) == \E f \in files : f.path = path

FileAt(files, path) == CHOOSE f \in files : f.path = path

remove_file(files, path) == {f \in files : f.path # path}

write_file(files, path, cfg, now, id) ==
    remove_file(files, path)
        \cup {[path |-> path, cfg |-> cfg, t |-> now, owner |-> id]}

\* options.get_mut(k).map(|v| *v = encrypt_str_or_original(v, ..))
encrypt_option(m, k) ==
    IF k \in DOMAIN m
    THEN [m EXCEPT ![k] = encrypt_str_or_original(@, PASSWORD_ENC_VERSION)]
    ELSE m

\* options.get_mut(k).map(|v| { decrypt; *v = password; store = store || store2 })
\* gives <<the map, store2>>
decrypt_option(m, k) ==
    IF k \in DOMAIN m
    THEN LET d == decrypt_str_or_original(m[k], PASSWORD_ENC_VERSION)
         IN  <<[m EXCEPT ![k] = d[1]], d[3]>>
    ELSE <<m, FALSE>>

\* mutant: the "os-password" option is stored as it is
PeerConfig_at_rest_os_plain(self) ==
    [self EXCEPT
       !.password = encrypt_vec_or_original(@, PASSWORD_ENC_VERSION),
       !.options = encrypt_option(@, "rdp_password")]

\* the record PeerConfig::store hands to store_path
PeerConfig_at_rest(self) ==
    [self EXCEPT
       !.password = encrypt_vec_or_original(@, PASSWORD_ENC_VERSION),
       !.options = encrypt_option(encrypt_option(@, "rdp_password"), "os-password")]

\* PeerConfig::store
PeerConfig_store(files, self, id, now) ==
    write_file(files, PeerConfig_path(id), PeerConfig_at_rest(self), now, id)

\* PeerConfig::load: the record in memory, and the files after a rewrite
PeerConfig_load(files, id, now) ==
    IF \/ ~Exists(files, PeerConfig_path(id))
       \/ FileAt(files, PeerConfig_path(id)).cfg = Garbage
    THEN [config |-> DefaultPeerConfig, files |-> files]
    ELSE LET at_rest == FileAt(files, PeerConfig_path(id)).cfg
             d == decrypt_vec_or_original(at_rest.password, PASSWORD_ENC_VERSION)
             r == decrypt_option(at_rest.options, "rdp_password")
             o == decrypt_option(r[1], "os-password")
             config == [at_rest EXCEPT !.password = d[1], !.options = o[1]]
         IN  [config |-> config,
              files |-> IF d[3] \/ r[2] \/ o[2]
                        THEN PeerConfig_store(files, config, id, now)
                        ELSE files]

\* PeerConfig::remove
PeerConfig_remove(files, id) == remove_file(files, PeerConfig_path(id))

\* the entries of read_dir(peers) that are files with extension "toml"
PeerEntries(files) ==
    {f.path : f \in {g \in files : /\ Len(g.path) = 2
                                   /\ g.path[1] = PEERS
                                   /\ extension(g.path[2]) = Some(Drop(TomlExt, 1))}}

\* the map closure of PeerConfig::peers applied to the entries in order
RECURSIVE peers_map(_, _, _, _)
peers_map(ord, files, now, out) ==
    IF ord = << >> THEN [files |-> files, out |-> out]
    ELSE LET p == Head(ord) IN
         IF ~Exists(files, p) THEN peers_map(Tail(ord), files, now, out)
         ELSE LET t == FileAt(files, p).t
                  id == id_decoded_string(file_stem(p[2]))
                  l == PeerConfig_load(files, id, now)
                  c == l.config
              IN  IF c.info.platform = EMPTY
                  THEN peers_map(Tail(ord), remove_file(l.files, p), now, out)
                  ELSE peers_map(Tail(ord), l.files, now,
                                 Append(out, [id |-> id, t |-> t, c |-> c]))

Orders(S) ==
    {o \in [1..Cardinality(S) -> S] : \A i, j \in DOMAIN o : o[i] = o[j] => i = j}

\* the outcomes of sort_unstable_by(|a, b| b.1.cmp(&a.1))
SortedByTime(out) ==
    {[i \in DOMAIN out |-> out[o[i]]] : o \in
        {q \in Orders(DOMAIN out) :
            \A i, j \in DOMAIN out : i < j => out[q[i]].t >= out[q[j]].t}}

notPeers ==
    <<CONFIG, CONFIG2, LOCAL_CONFIG, disk, last, KEY_PAIR, keyLock, rw, pc, frame,
      ret, spawned, gens, codec, pathv, ONLINE, PROD_RENDEZVOUS_SERVER, loadv>>

InitPeers ==
    /\ peerFiles = {}
    /\ clock = 0
    /\ listing = NoListing
    /\ InitDomIdle /\ InitKeyIdle /\ InitCodecIdle /\ InitPathIdle
    /\ InitRendezvousIdle /\ InitLoadIdle

\* PeerConfig::store(id) of a profile, at the current time or a later one
PeerStore ==
    \E id \in ListedIds, self \in PeerConfigValues, tick \in {0, 1} :
        /\ clock + tick <= MaxTime
        /\ clock' = clock + tick
        /\ peerFiles' = PeerConfig_store(peerFiles, self, id, clock')
        /\ listing' = NoListing
        /\ UNCHANGED notPeers

PeerRemove ==
    \E id \in ListedIds :
        /\ Exists(peerFiles, PeerConfig_path(id))
        /\ peerFiles' = PeerConfig_remove(peerFiles, id)
        /\ listing' = NoListing
        /\ UNCHANGED <<clock, notPeers>>

\* PeerConfig::peers(): reading the entry in `failed` (if any) fails; the
\* other entries come in the order ord
PeersList ==
    \E failed \in {{}} \cup {{p} : p \in PeerEntries(peerFiles)},
       ord \in Orders(PeerEntries(peerFiles)) :
        LET r == peers_map(ord, peerFiles, clock, << >>) IN
        /\ IF failed # {}
           THEN /\ peerFiles' = peerFiles
                /\ listing' = [pc |-> "listed", before |-> peerFiles,
                               failed |-> failed, result |-> << >>]
           ELSE /\ peerFiles' = r.files
                /\ \E res \in SortedByTime(r.out) :
                      listing' = [pc |-> "listed", before |-> peerFiles,
                                  failed |-> failed, result |-> res]
        /\ UNCHANGED <<clock, notPeers>>

NextPeers == PeerStore \/ PeerRemove \/ PeersList

SpecPeers == InitPeers /\ [][NextPeers]_vars

\* the record PeerConfig::load makes of a file
Loaded(f) ==
    [f.cfg EXCEPT
       !.password = decrypt_vec_or_original(@, PASSWORD_ENC_VERSION)[1]]

\* C9: after peers() has read the directory, every stored profile with an
\* empty platform has lost its file and is not in the result, every stored
\* profile with a platform is in the result, and the result is ordered by
\* modification time, most recent first.
C9_PeersPrunesKeepsSorts ==
    (listing.pc = "listed" /\ listing.failed = {}) =>
        /\ \A f \in listing.before :
              IF f.cfg.info.platform = EMPTY
              THEN /\ ~Exists(peerFiles, f.path)
                   /\ \A i \in DOMAIN listing.result :
                         listing.result[i].id # f.owner
              ELSE \E i \in DOMAIN listing.result :
                      /\ listing.result[i].id = f.owner
                      /\ listing.result[i].c = Loaded(f)
        /\ \A i, j \in DOMAIN listing.result :
              i < j => listing.result[i].t >= listing.result[j].t

\* the file name carries the prefix and its remainder is not valid base64
DecodeFails(path) ==
    LET id == file_stem(path[Len(path)]) IN
    /\ StartsWith(id, Base64Prefix) /\ Len(id) # 7
    /\ base64_decode(Drop(id, 7)) = None

\* C10: when reading one directory entry fails, or one file name fails to
\* decode, only that entry is skipped: every other profile with a platform
\* is still returned.
C10_OnlyOffendingSkipped ==
    listing.pc = "listed" =>
        \A f \in listing.before :
            ( /\ f.path \notin listing.failed
              /\ ~DecodeFails(f.path)
              /\ f.cfg.info.platform # EMPTY )
            => \E i \in DOMAIN listing.result :
                  /\ listing.result[i].t = f.t
                  /\ listing.result[i].c = Loaded(f)

----------------------------------------------------------------------------
(* Rendezvous server resolution: Config::get_rendezvous_server and         *)
(* Config::get_rendezvous_servers.  Calls are sequential: each reads the   *)
(* option map, PROD_RENDEZVOUS_SERVER and the network-options record as    *)
(* they are at the call.                                                   *)

SERIAL == 3

RENDEZVOUS_PORT == 21116

\* "remotely.excellentiam.co"
RENDEZVOUS_SERVERS ==
    << <<114, 101, 109, 111, 116, 101, 108, 121, 46,
        101, 120, 99, 101, 108, 108, 101, 110, 116, 105, 97, 109, 46, 99, 111>> >>

\* str::contains of a one-character pattern
Contains(s, c) == \E i \in 1..Len(s) : s[i] = c

\* the decimal form of a non-negative integer ({} in format!)
RECURSIVE to_string(_)
to_string(n) ==
    IF n < 10 THEN <<48 + n>> ELSE to_string(n \div 10) \o <<48 + (n % 10)>>

\* str::split: the pieces between separators, empty pieces included
RECURSIVE split(_, _, _)
split(s, sep, cur) ==
    IF s = << >> THEN <<cur>>
    ELSE IF Head(s) = sep THEN <<cur>> \o split(Tail(s), sep, << >>)
    ELSE split(Tail(s), sep, Append(cur, Head(s)))

ContainsDot(x) == Contains(x, 46)

\* mutant: a persisted serial equal to SERIAL already enables the option
get_rendezvous_servers_ge(c, prod) ==
    LET s == get_option(c, "custom-rendezvous-server")
        ss == SelectSeq(split(get_option(c, "rendezvous-servers"), 44, << >>),
                        ContainsDot)
    IN  IF s # EMPTY THEN <<s>>
        ELSE IF prod # EMPTY THEN <<prod>>
        ELSE IF c.serial >= SERIAL /\ ss # << >> THEN ss
        ELSE RENDEZVOUS_SERVERS

get_rendezvous_servers(c, prod) ==
    LET s == get_option(c, "custom-rendezvous-server")
        ss == SelectSeq(split(get_option(c, "rendezvous-servers"), 44, << >>),
                        ContainsDot)
    IN  IF s # EMPTY THEN <<s>>
        ELSE IF prod # EMPTY THEN <<prod>>
        ELSE IF c.serial > SERIAL /\ ss # << >> THEN ss
        ELSE RENDEZVOUS_SERVERS

\* mutant: the persisted server is consulted before the user override
get_rendezvous_server_latency_first(c, prod) ==
    LET s0 == c.rendezvous_server
        s1 == IF s0 = EMPTY THEN get_option(c, "custom-rendezvous-server") ELSE s0
        s2 == IF s1 = EMPTY THEN prod ELSE s1
        l == get_rendezvous_servers(c, prod)
        s4 == IF s2 = EMPTY THEN (IF l = << >> THEN EMPTY ELSE l[1]) ELSE s2
    IN  IF ~Contains(s4, 58)
        THEN s4 \o <<58>> \o to_string(RENDEZVOUS_PORT) ELSE s4

\* mutant: the persisted server is consulted before the production override
get_rendezvous_server_persisted_first(c, prod) ==
    LET s1 == get_option(c, "custom-rendezvous-server")
        s2 == IF s1 = EMPTY THEN c.rendezvous_server ELSE s1
        s3 == IF s2 = EMPTY THEN prod ELSE s2
        l == get_rendezvous_servers(c, prod)
        s4 == IF s3 = EMPTY THEN (IF l = << >> THEN EMPTY ELSE l[1]) ELSE s3
    IN  IF ~Contains(s4, 58)
        THEN s4 \o <<58>> \o to_string(RENDEZVOUS_PORT) ELSE s4

\* mutant: the last resort is the compiled-in list, whatever the options say
get_rendezvous_server_compiled_in(c, prod) ==
    LET s1 == get_option(c, "custom-rendezvous-server")
        s2 == IF s1 = EMPTY THEN prod ELSE s1
        s3 == IF s2 = EMPTY THEN c.rendezvous_server ELSE s2
        s4 == IF s3 = EMPTY THEN RENDEZVOUS_SERVERS[1] ELSE s3
    IN  IF ~Contains(s4, 58)
        THEN s4 \o <<58>> \o to_string(RENDEZVOUS_PORT) ELSE s4

get_rendezvous_server(c, prod) ==
    LET s1 == get_option(c, "custom-rendezvous-server")
        s2 == IF s1 = EMPTY THEN prod ELSE s1
        s3 == IF s2 = EMPTY THEN c.rendezvous_server ELSE s2
        l == get_rendezvous_servers(c, prod)
        s4 == IF s3 = EMPTY THEN (IF l = << >> THEN EMPTY ELSE l[1]) ELSE s3
    IN  IF ~Contains(s4, 58)
        THEN s4 \o <<58>> \o to_string(RENDEZVOUS_PORT) ELSE s4

----------------------------------------------------------------------------
(* SpecResolve: the two resolution calls on every combination of the user  *)
(* override, the production override, the persisted server, the persisted  *)
(* serial and the "rendezvous-servers" option.                             *)

Str_cx == <<99, 46, 120>>                         \* "c.x"
Str_cx9 == <<99, 46, 120, 58, 57>>                \* "c.x:9"
Str_px == <<112, 46, 120>>                        \* "p.x"
Str_ha == <<104, 46, 97>>                        \* "h.a"
Str_hb == <<104, 46, 98>>                        \* "h.b"
Str_bad == <<98, 97, 100>>                       \* "bad"
Str_comma == <<44>>                              \* ","
Str_list == <<115, 46, 97, 44,
             98, 97, 100, 44, 115, 46, 98, 58, 57>>       \* "s.a,bad,s.b:9"

CustomValues == {EMPTY, Str_cx, Str_cx9}
ProdValues == {EMPTY, Str_px}
PersistedValues == {EMPTY, Str_ha}
SerialValues == {0, SERIAL, SERIAL + 1}
ServersOptionValues == {EMPTY, Str_bad, Str_comma, Str_list}

\* an option map holding exactly the non-empty options (set_option keeps
\* no empty value)
ServerOptions(custom, servers) ==
    [k \in {x \in {"custom-rendezvous-server"} : custom # EMPTY}
           \cup {x \in {"rendezvous-servers"} : servers # EMPTY}
       |-> IF k = "custom-rendezvous-server" THEN custom ELSE servers]

InitResolve ==
    /\ \E custom \in CustomValues, servers \in ServersOptionValues,
          pers \in PersistedValues, serial \in SerialValues :
          CONFIG2 = [DefaultConfig2 EXCEPT !.rendezvous_server = pers,
                                           !.serial = serial,
                                           !.options = ServerOptions(custom, servers)]
    /\ PROD_RENDEZVOUS_SERVER \in ProdValues
    /\ ONLINE = << >>
    /\ CONFIG = DefaultConfig
    /\ LOCAL_CONFIG = DefaultLocalConfig
    /\ disk = [cfg |-> None, cfg2 |-> Some(Config2_store(CONFIG2)), local |-> None]
    /\ last = NoCall
    /\ InitKeyIdle /\ InitCodecIdle /\ InitPathIdle /\ InitPeersIdle /\ InitLoadIdle

notRead ==
    <<CONFIG, CONFIG2, LOCAL_CONFIG, disk, keyVars, codec, pathv, peerVars,
      rdvVars, loadv>>

\* a returned String s is recorded as <<s>>, a Vec<String> as it is
Call_get_rendezvous_server ==
    /\ last' = [NoCall EXCEPT
                  !.op = "get_rendezvous_server",
                  !.ret = <<get_rendezvous_server(CONFIG2, PROD_RENDEZVOUS_SERVER)>>]
    /\ UNCHANGED notRead

Call_get_rendezvous_servers ==
    /\ last' = [NoCall EXCEPT
                  !.op = "get_rendezvous_servers",
                  !.ret = get_rendezvous_servers(CONFIG2, PROD_RENDEZVOUS_SERVER)]
    /\ UNCHANGED notRead

NextResolve == Call_get_rendezvous_server \/ Call_get_rendezvous_servers

SpecResolve == InitResolve /\ [][NextResolve]_vars

----------------------------------------------------------------------------
(* Claims about the resolution calls                                       *)

PortSuffix == <<58, 50, 49, 49, 49, 54>>            \* ":21116"

WithDefaultPort(x) == IF Contains(x, 58) THEN x ELSE x \o PortSuffix

UserOverride == get_option(CONFIG2, "custom-rendezvous-server")

\* the well-formed host entries of the values the "rendezvous-servers"
\* option takes here
WellFormedEntries ==
    IF get_option(CONFIG2, "rendezvous-servers") = Str_list
    THEN << <<115, 46, 97>>, <<115, 46, 98, 58, 57>> >>
    ELSE << >>

NoOverrideNoPersisted ==
    /\ UserOverride = EMPTY
    /\ PROD_RENDEZVOUS_SERVER = EMPTY
    /\ CONFIG2.rendezvous_server = EMPTY

\* C11: get_rendezvous_server returns the first non-empty of the user
\* override option, the production override and the persisted server, with
\* ":" and the default port appended exactly when the value holds no ':'.
C11_Precedence ==
    last.op = "get_rendezvous_server" =>
        LET first == IF UserOverride # EMPTY THEN UserOverride
                     ELSE IF PROD_RENDEZVOUS_SERVER # EMPTY
                          THEN PROD_RENDEZVOUS_SERVER
                          ELSE CONFIG2.rendezvous_server
        IN  first # EMPTY => last.ret = <<WithDefaultPort(first)>>

C11_Witness ==
    /\ last.op = "get_rendezvous_server"
    /\ UserOverride = EMPTY
    /\ PROD_RENDEZVOUS_SERVER = Str_px
    /\ CONFIG2.rendezvous_server = Str_ha
    /\ last.ret = << <<112, 46, 120, 58, 50, 49, 49, 49, 54>> >>

\* C12 as stated: with the user override, the production override and the
\* persisted server all empty, get_rendezvous_server returns the first
\* compiled-in server with the default port, whatever the persisted serial
\* and the "rendezvous-servers" option are.
C12_CompiledInDefault ==
    (last.op = "get_rendezvous_server" /\ NoOverrideNoPersisted)
        => last.ret = <<RENDEZVOUS_SERVERS[1] \o PortSuffix>>

\* C12 amended: in that case the result is the first entry of the list
\* form: the first well-formed entry of the "rendezvous-servers" option when
\* the persisted serial exceeds SERIAL and there is one, else the first
\* compiled-in server; the default port is appended when it holds no ':'.
C12_FirstOfServerList ==
    (last.op = "get_rendezvous_server" /\ NoOverrideNoPersisted)
        => last.ret =
              <<WithDefaultPort(
                  IF CONFIG2.serial > SERIAL /\ WellFormedEntries # << >>
                  THEN WellFormedEntries[1] ELSE RENDEZVOUS_SERVERS[1])>>

C12_Witness ==
    /\ last.op = "get_rendezvous_server" /\ NoOverrideNoPersisted
    /\ CONFIG2.serial > SERIAL
    /\ last.ret = << <<115, 46, 97, 58, 50, 49, 49, 49, 54>> >>

\* C13: get_rendezvous_servers returns the user override alone if it is
\* non-empty, else the production override alone if it is non-empty, else
\* the well-formed entries of the "rendezvous-servers" option if the
\* persisted serial exceeds SERIAL and there are any, else the compiled-in
\* list; with a serial of at most SERIAL the option has no influence.
C13_ServerList ==
    last.op = "get_rendezvous_servers" =>
        last.ret =
            IF UserOverride # EMPTY THEN <<UserOverride>>
            ELSE IF PROD_RENDEZVOUS_SERVER # EMPTY THEN <<PROD_RENDEZVOUS_SERVER>>
            ELSE IF CONFIG2.serial > SERIAL /\ WellFormedEntries # << >>
                 THEN WellFormedEntries
                 ELSE RENDEZVOUS_SERVERS

C13_Witness ==
    /\ last.op = "get_rendezvous_servers"
    /\ UserOverride = EMPTY /\ PROD_RENDEZVOUS_SERVER = EMPTY
    /\ CONFIG2.serial = SERIAL
    /\ get_option(CONFIG2, "rendezvous-servers") = Str_list
    /\ last.ret = RENDEZVOUS_SERVERS

----------------------------------------------------------------------------
(* Latency self-tuning: Config::update_latency and Config::reset_online.   *)
(* ONLINE is the latency table as the sequence of its <<host, latency>>    *)
(* entries in iteration order.  Inserting a new host may leave the entries *)
(* in any order; overwriting the latency of a host keeps the order.        *)

\* i64::MAX; the model's integers are 32 bits wide
I64_MAX == 2147483647

OnlineHosts(online) == {online[i][1] : i \in DOMAIN online}

\* ONLINE.lock().unwrap().insert(host, latency): the tables it may leave
OnlineInsert(online, host, latency) ==
    IF host \in OnlineHosts(online)
    THEN {[i \in DOMAIN online |->
              IF online[i][1] = host THEN <<host, latency>> ELSE online[i]]}
    ELSE LET n == Append(online, <<host, latency>>)
         IN  {[i \in DOMAIN n |-> n[o[i]]] : o \in Orders(DOMAIN n)}

\* mutant: the scan does not skip the non-positive latencies
RECURSIVE scan_any_latency(_, _, _)
scan_any_latency(online, host, delay) ==
    IF online = << >> THEN <<host, delay>>
    ELSE IF Head(online)[2] < delay
         THEN scan_any_latency(Tail(online), Head(online)[1], Head(online)[2])
         ELSE scan_any_latency(Tail(online), host, delay)

\* the for loop of update_latency: the first entry in iteration order with
\* the smallest strictly positive latency below delay
RECURSIVE scan_online(_, _, _)
scan_online(online, host, delay) ==
    IF online = << >> THEN <<host, delay>>
    ELSE IF Head(online)[2] > 0 /\ Head(online)[2] < delay
         THEN scan_online(Tail(online), Head(online)[1], Head(online)[2])
         ELSE scan_online(Tail(online), host, delay)

\* mutant: the write-back starts from a fresh record
update_latency_from_default(c, online) ==
    LET host == scan_online(online, EMPTY, I64_MAX)[1] IN
    IF host # EMPTY /\ host # c.rendezvous_server
    THEN LET n == [DefaultConfig2 EXCEPT !.rendezvous_server = host]
         IN  Outcome(n, <<Config2_store(n)>>, Unit)
    ELSE Outcome(c, << >>, Unit)

\* update_latency after the insert: the network-options cache and stores
update_latency(c, online) ==
    LET host == scan_online(online, EMPTY, I64_MAX)[1] IN
    IF host # EMPTY /\ host # c.rendezvous_server
    THEN LET n == [c EXCEPT !.rendezvous_server = host]
         IN  Outcome(n, <<Config2_store(n)>>, Unit)
    ELSE Outcome(c, << >>, Unit)

----------------------------------------------------------------------------
(* SpecLatency: update_latency, reset_online, set_option of the user       *)
(* override and get_rendezvous_server, called one after the other.         *)

LatencyHosts == {EMPTY, Str_ha, Str_hb}

Latencies == {0, 20, 50, I64_MAX}

InitLatency ==
    /\ \E pers \in PersistedValues :
          CONFIG2 = [DefaultConfig2 EXCEPT !.rendezvous_server = pers,
                                           !.nat_type = 1, !.socks = Some(Socks1)]
    /\ PROD_RENDEZVOUS_SERVER \in ProdValues
    /\ ONLINE = << >>
    /\ CONFIG = DefaultConfig
    /\ LOCAL_CONFIG = DefaultLocalConfig
    /\ disk = [cfg |-> None, cfg2 |-> Some(Config2_store(CONFIG2)), local |-> None]
    /\ last = NoCall
    /\ InitKeyIdle /\ InitCodecIdle /\ InitPathIdle /\ InitPeersIdle /\ InitLoadIdle

notLatency ==
    <<KEY_PAIR, keyLock, rw, pc, frame, ret, spawned, gens, codec, pathv,
      peerFiles, clock, listing, PROD_RENDEZVOUS_SERVER, loadv>>

Call_update_latency(oks) ==
    \E host \in LatencyHosts, latency \in Latencies, ok \in oks :
        \E online \in OnlineInsert(ONLINE, host, latency) :
            /\ ONLINE' = online
            /\ CallConfig2("update_latency",
                           [NoArg EXCEPT !.str = host, !.int = latency], None,
                           update_latency(CONFIG2, online), ok)
            /\ UNCHANGED notLatency

Call_reset_online ==
    /\ ONLINE' = << >>
    /\ last' = [NoCall EXCEPT !.op = "reset_online"]
    /\ UNCHANGED <<CONFIG, CONFIG2, LOCAL_CONFIG, disk, notLatency>>

Call_set_custom_server(oks) ==
    \E v \in CustomValues, ok \in oks :
        /\ CallConfig2("set_option",
                       [NoArg EXCEPT !.k = "custom-rendezvous-server", !.str = v],
                       MapGet(CONFIG2.options, "custom-rendezvous-server"),
                       set_option(CONFIG2, "custom-rendezvous-server", v), ok)
        /\ UNCHANGED notDom

NextLatency ==
    \/ Call_update_latency(Writable)
    \/ Call_reset_online
    \/ Call_set_custom_server(Writable)
    \/ Call_get_rendezvous_server

SpecLatency == InitLatency /\ [][NextLatency]_vars

----------------------------------------------------------------------------
(* Claims about the latency self-tuning                                    *)

PositiveLatencies(online) == {online[i][2] : i \in {j \in DOMAIN online : online[j][2] > 0}}

\* the hosts holding the smallest strictly positive latency of the table
BestHosts(online) ==
    {online[i][1] : i \in {j \in DOMAIN online :
        /\ online[j][2] > 0
        /\ \A l \in PositiveLatencies(online) : online[j][2] <= l}}

\* C14 as stated, for every update_latency call of a sequential series:
\* afterwards, if the table holds a strictly positive latency, the persisted
\* rendezvous_server is a host with the smallest one; a call recording a
\* non-positive latency for a host other than the current best leaves the
\* persisted rendezvous_server as it was; with no strictly positive entry
\* the network-options record is neither changed nor stored.
C14_BestHostPersisted ==
    [][last'.op = "update_latency" =>
        /\ PositiveLatencies(ONLINE') # {}
              => CONFIG2'.rendezvous_server \in BestHosts(ONLINE')
        /\ (last'.arg.int <= 0 /\ last'.arg.str \notin BestHosts(ONLINE))
              => CONFIG2'.rendezvous_server = CONFIG2.rendezvous_server
        /\ PositiveLatencies(ONLINE') = {}
              => (CONFIG2' = CONFIG2 /\ last'.wr = 0 /\ disk' = disk)
    ]_vars

\* What update_latency does guarantee of C14: the first part when the
\* smallest strictly positive latency is below i64::MAX and no host holding
\* it is the empty string; in the second part the persisted
\* rendezvous_server stays as it was or becomes another host holding the
\* same smallest latency; the third part as stated.
C14_BestHostPersistedUnlessSentinel ==
    [][last'.op = "update_latency" =>
        /\ ( /\ PositiveLatencies(ONLINE') # {}
             /\ EMPTY \notin BestHosts(ONLINE')
             /\ \E l \in PositiveLatencies(ONLINE') : l < I64_MAX )
              => CONFIG2'.rendezvous_server \in BestHosts(ONLINE')
        /\ (last'.arg.int <= 0 /\ last'.arg.str \notin BestHosts(ONLINE))
              => \/ CONFIG2'.rendezvous_server = CONFIG2.rendezvous_server
                 \/ CONFIG2'.rendezvous_server \in BestHosts(ONLINE)
        /\ PositiveLatencies(ONLINE') = {}
              => (CONFIG2' = CONFIG2 /\ last'.wr = 0 /\ disk' = disk)
    ]_vars

\* h.a at 50, then h.b at 20 made h.b the persisted server, and a later
\* latency of 0 for h.a left it
C14_Witness ==
    /\ last.op = "update_latency" /\ last.arg.str = Str_ha /\ last.arg.int = 0
    /\ \E i \in DOMAIN ONLINE : ONLINE[i] = <<Str_hb, 20>>
    /\ \E i \in DOMAIN ONLINE : ONLINE[i] = <<Str_ha, 0>>
    /\ Len(ONLINE) = 2
    /\ CONFIG2.rendezvous_server = Str_hb
    /\ disk.cfg2 = Some(Config2_store(CONFIG2))

\* C15: update_latency and reset_online leave the user override option as
\* it is, and while it is non-empty every get_rendezvous_server call
\* returns it (with the default port appended if it has none).
C15_OverrideWins ==
    [][ /\ last'.op \in {"update_latency", "reset_online"}
            => UserOverride' = UserOverride
        /\ (last'.op = "get_rendezvous_server" /\ UserOverride' # EMPTY)
            => last'.ret = <<WithDefaultPort(UserOverride')>>
    ]_vars

\* the override is returned although the latency table made another host
\* the persisted server
C15_Witness ==
    /\ last.op = "get_rendezvous_server"
    /\ UserOverride = Str_cx
    /\ CONFIG2.rendezvous_server = Str_hb
    /\ \E i \in DOMAIN ONLINE : ONLINE[i][1] = Str_hb /\ ONLINE[i][2] > 0
    /\ last.ret = << <<99, 46, 120, 58, 50, 49, 49, 49, 54>> >>

----------------------------------------------------------------------------
(* Identity load: Config::load, run when CONFIG is first used.  The file's *)
(* modification time, the build time of the executable and the outcome of  *)
(* each hardware address lookup are inputs of the call; times are seconds. *)

\* Duration::from_secs(30), the grace window
GRACE == 30

\* for _ in 0..3
ATTEMPTS == 3

\* the earliest SystemTime; every file time of the model is GRACE later
TimeFloor == 0

\* SystemTime::checked_sub
checked_sub(t, d) == IF t - d >= TimeFloor THEN Some(t - d) ELSE None

\* Option::unwrap_or
unwrap_or(o, default) == IF o = None THEN default ELSE o[1]

\* Config::get_auto_id on a desktop build: bytes [2..] of the hardware
\* address folded into a u32, masked with 0x1FFFFFFF and printed; the mask
\* is applied to the top byte, which keeps the sum within 32 bits
get_auto_id(ma) ==
    IF ma = None THEN None
    ELSE LET b == ma[1]
         IN  Some(to_string((b[3] % 32) * 16777216 + b[4] * 65536
                            + b[5] * 256 + b[6]))

\* the retry loop of Config::load: <<calls of get_auto_id, the id found>>
RECURSIVE generate_id(_, _)
generate_id(macs, n) ==
    IF n > ATTEMPTS \/ n > Len(macs) THEN <<n - 1, None>>
    ELSE IF get_auto_id(macs[n]) # None THEN <<n, get_auto_id(macs[n])>>
         ELSE generate_id(macs, n + 1)

\* mutant: the file time is not looked at
id_trusted_any_time(c, mtime, exe_time) ==
    /\ c.id # EMPTY
    /\ c.enc_id = EMPTY
    /\ ~decrypt_str_or_original(c.id, PASSWORD_ENC_VERSION)[2]

\* mutant: an empty plaintext id passes the test
id_trusted_when_empty(c, mtime, exe_time) ==
    /\ unwrap_or(checked_sub(mtime, GRACE), exe_time) < exe_time
    /\ c.enc_id = EMPTY
    /\ ~decrypt_str_or_original(c.id, PASSWORD_ENC_VERSION)[2]

\* the test of Config::load for a legacy plaintext id
id_trusted(c, mtime, exe_time) ==
    /\ unwrap_or(checked_sub(mtime, GRACE), exe_time) < exe_time
    /\ c.id # EMPTY
    /\ c.enc_id = EMPTY
    /\ ~decrypt_str_or_original(c.id, PASSWORD_ENC_VERSION)[2]

\* mutant: the decrypted enc_id is not adopted
Config_load_id_not_adopted(file, mtime, exe_time, macs) ==
    LET c0 == load_(file, DefaultConfig)
        pw == decrypt_str_or_original(c0.password, PASSWORD_ENC_VERSION)
        c1 == [c0 EXCEPT !.password = pw[1]]
        e  == decrypt_str_or_original(c0.enc_id, PASSWORD_ENC_VERSION)
        legacy == ~e[2] /\ id_trusted(c0, mtime, exe_time)
        id_valid == e[2] \/ legacy
        store2 == pw[3] \/ (e[2] /\ e[3]) \/ legacy
        gen == generate_id(macs, 1)
    IN  IF id_valid
        THEN [config |-> c1, store |-> store2, tries |-> 0]
        ELSE IF gen[2] # None
             THEN [config |-> [c1 EXCEPT !.id = gen[2][1]], store |-> TRUE,
                   tries |-> gen[1]]
             ELSE [config |-> c1, store |-> store2, tries |-> gen[1]]

\* mutant: a migrated or generated id is not marked for storing
Config_load_id_not_stored(file, mtime, exe_time, macs) ==
    LET c0 == load_(file, DefaultConfig)
        pw == decrypt_str_or_original(c0.password, PASSWORD_ENC_VERSION)
        c1 == [c0 EXCEPT !.password = pw[1]]
        e  == decrypt_str_or_original(c0.enc_id, PASSWORD_ENC_VERSION)
        legacy == ~e[2] /\ id_trusted(c0, mtime, exe_time)
        id_valid == e[2] \/ legacy
        c2 == IF e[2] THEN [c1 EXCEPT !.id = e[1]] ELSE c1
        store2 == pw[3] \/ (e[2] /\ e[3])
        gen == generate_id(macs, 1)
    IN  IF id_valid
        THEN [config |-> c2, store |-> store2, tries |-> 0]
        ELSE IF gen[2] # None
             THEN [config |-> [c2 EXCEPT !.id = gen[2][1]], store |-> store2,
                   tries |-> gen[1]]
             ELSE [config |-> c2, store |-> store2, tries |-> gen[1]]

\* Config::load up to "if store": the record it returns, whether it is
\* stored, and the number of get_auto_id calls
Config_load(file, mtime, exe_time, macs) ==
    LET c0 == load_(file, DefaultConfig)
        pw == decrypt_str_or_original(c0.password, PASSWORD_ENC_VERSION)
        c1 == [c0 EXCEPT !.password = pw[1]]
        e  == decrypt_str_or_original(c0.enc_id, PASSWORD_ENC_VERSION)
        legacy == ~e[2] /\ id_trusted(c0, mtime, exe_time)
        id_valid == e[2] \/ legacy
        c2 == IF e[2] THEN [c1 EXCEPT !.id = e[1]] ELSE c1
        store2 == pw[3] \/ (e[2] /\ e[3]) \/ legacy
        gen == generate_id(macs, 1)
    IN  IF id_valid
        THEN [config |-> c2, store |-> store2, tries |-> 0]
        ELSE IF gen[2] # None
             THEN [config |-> [c2 EXCEPT !.id = gen[2][1]], store |-> TRUE,
                   tries |-> gen[1]]
             ELSE [config |-> c2, store |-> store2, tries |-> gen[1]]

----------------------------------------------------------------------------
(* SpecLoad: the process starts (Config::load reads the Identity file) and *)
(* set_id is called, any number of times.                                  *)

Str_2 == <<50>>                                   \* "2"
Str_x == <<120>>                                  \* "x"
Str_v1 == <<48, 49, 57, 52>>                      \* "0194": another version tag

\* plaintext id at rest: none, a legacy id, an id that is itself ciphertext
FileIds == {EMPTY, Str_1, encrypt_str_or_original(Str_1, PASSWORD_ENC_VERSION)}

\* enc_id at rest: none, the encryption of "2", two strings that do not decrypt
FileEncIds == {EMPTY, encrypt_str_or_original(Str_2, PASSWORD_ENC_VERSION),
               Str_x, Str_v1}

FilePasswords == {EMPTY, Str_p}

IdentityFiles ==
    {None} \cup
    {Some([DefaultConfig EXCEPT !.id = i, !.enc_id = e, !.password = p]) :
        i \in FileIds, e \in FileEncIds, p \in FilePasswords}

FileTimes == {TimeFloor + GRACE, TimeFloor + GRACE + 10, TimeFloor + GRACE + 11}

ExeTimes == {TimeFloor + 10, TimeFloor + 11}

\* a hardware address whose third byte has bits above the mask
Mac1 == <<2, 0, 224, 0, 1, 2>>

\* Ok(Some(ma)) or not
MacLookups == {None, Some(Mac1)}

InitLoad ==
    /\ CONFIG = DefaultConfig
    /\ CONFIG2 = DefaultConfig2
    /\ LOCAL_CONFIG = DefaultLocalConfig
    /\ \E f \in IdentityFiles : disk = [cfg |-> f, cfg2 |-> None, local |-> None]
    /\ last = NoCall
    /\ loadv = NoLoad
    /\ InitKeyIdle /\ InitCodecIdle /\ InitPathIdle /\ InitPeersIdle
    /\ InitRendezvousIdle

notLoad ==
    <<KEY_PAIR, keyLock, rw, pc, frame, ret, spawned, gens, codec, pathv,
      peerFiles, clock, listing, ONLINE, PROD_RENDEZVOUS_SERVER>>

Call_Config_load(oks) ==
    \E mtime \in FileTimes, exe_time \in ExeTimes,
       macs \in [1..ATTEMPTS -> MacLookups], ok \in oks :
        LET r == Config_load(disk.cfg, mtime, exe_time, macs)
            stores == IF r.store THEN <<Config_store(r.config)>> ELSE << >>
        IN  /\ CallConfig("Config_load", NoArg, None,
                          Outcome(r.config, stores, Unit), ok)
            /\ loadv' = [file |-> disk.cfg, mtime |-> mtime, exe_time |-> exe_time,
                         macs |-> macs, tries |-> r.tries]
            /\ UNCHANGED notLoad

Call_set_id_loaded(oks) ==
    /\ last.op # "none"
    /\ \E id \in IdValues, ok \in oks :
          CallConfig("set_id", [NoArg EXCEPT !.str = id], None, set_id(CONFIG, id), ok)
    /\ UNCHANGED <<notLoad, loadv>>

NextLoad ==
    \/ Call_Config_load(Writable)
    \/ Call_set_id_loaded(Writable)

SpecLoad == InitLoad /\ [][NextLoad]_vars

----------------------------------------------------------------------------
(* Claims about the Identity load                                          *)

\* the record Config::load read: the file's, or the default one
LoadedFile == load_(loadv.file, DefaultConfig)

\* the enc_id read from the file and its decryption
LoadedEncId == decrypt_str_or_original(LoadedFile.enc_id, PASSWORD_ENC_VERSION)

\* C16: when the enc_id read from the file decrypts, the loaded id is the
\* decrypted value, whatever the plaintext id and the two times are, and
\* get_auto_id is not called.
C16_EncIdAdopted ==
    (last.op = "Config_load" /\ LoadedEncId[2])
        => /\ CONFIG.id = LoadedEncId[1]
           /\ loadv.tries = 0

\* enc_id holds "2" beside a plaintext id "1" in a file older than the
\* executable, and a hardware address is available: the id is "2"
C16_Witness ==
    /\ last.op = "Config_load"
    /\ LoadedFile.id = Str_1
    /\ LoadedFile.enc_id = encrypt_str_or_original(Str_2, PASSWORD_ENC_VERSION)
    /\ loadv.mtime - GRACE < loadv.exe_time
    /\ loadv.macs[1] # None
    /\ CONFIG.id = Str_2
    /\ loadv.tries = 0

\* the four conditions of C17 on what was read, stated on the file time,
\* the grace window and the build time themselves
LegacyIdConditions ==
    /\ loadv.mtime - GRACE < loadv.exe_time
    /\ LoadedFile.id # EMPTY
    /\ LoadedFile.enc_id = EMPTY
    /\ ~decrypt_str_or_original(LoadedFile.id, PASSWORD_ENC_VERSION)[2]

\* C17: when the enc_id read from the file does not decrypt, the plaintext
\* id is kept as the id without any get_auto_id call if and only if the
\* file time less the grace window is before the build time, the plaintext
\* id is non-empty, enc_id is empty and the plaintext id does not decrypt;
\* in every other case get_auto_id is called.
C17_LegacyIdTrust ==
    (last.op = "Config_load" /\ ~LoadedEncId[2])
        => /\ LegacyIdConditions => (CONFIG.id = LoadedFile.id /\ loadv.tries = 0)
           /\ ~LegacyIdConditions => loadv.tries >= 1

\* a legacy id "1" in a file one second inside the window is kept although
\* a hardware address is available
C17_Witness ==
    /\ last.op = "Config_load"
    /\ ~LoadedEncId[2]
    /\ LoadedFile.id = Str_1 /\ LoadedFile.enc_id = EMPTY
    /\ loadv.mtime - GRACE = loadv.exe_time - 1
    /\ loadv.macs[1] # None
    /\ CONFIG.id = Str_1
    /\ loadv.tries = 0

\* the id the platform id source gave at the n-th attempt, if any
Attempt(n) == get_auto_id(loadv.macs[n])

\* C18: on a load with an untrusted id get_auto_id is called at most three
\* times and the first id it gives is the loaded id; when all three calls
\* fail the loaded id is empty, whatever plaintext id the file held.
C18_GeneratedOrEmpty ==
    (last.op = "Config_load" /\ ~LoadedEncId[2] /\ ~LegacyIdConditions)
        => /\ loadv.tries <= ATTEMPTS
           /\ \A n \in 1..ATTEMPTS :
                 (Attempt(n) # None /\ \A m \in 1..(n - 1) : Attempt(m) = None)
                     => (CONFIG.id = Attempt(n)[1] /\ loadv.tries = n)
           /\ (\A n \in 1..ATTEMPTS : Attempt(n) = None)
                 => (CONFIG.id = EMPTY /\ loadv.tries = ATTEMPTS)

\* the three ways id resolution settles the id
IdAdopted == LoadedEncId[2] /\ CONFIG.id # LoadedFile.id

IdMigrated == ~LoadedEncId[2] /\ LegacyIdConditions

IdGenerated == loadv.tries >= 1 /\ Attempt(loadv.tries) # None

\* the file holds what Config::store writes for the cached record: no
\* plaintext id, enc_id the encryption of the cached id
StoredAtRest ==
    /\ last.wr = 1
    /\ disk.cfg # None
    /\ disk.cfg[1].id = EMPTY
    /\ disk.cfg[1].enc_id = encrypt_str_or_original(CONFIG.id, PASSWORD_ENC_VERSION)

\* C19 as stated: a load that adopted the id from enc_id, migrated a legacy
\* plaintext id or generated a new id has written the record back; and a
\* record written by Config::store, from load or from set_id, has an empty
\* plaintext id and enc_id the encryption of the in-memory id.
C19_ChangedRecordStored ==
    /\ (last.op = "Config_load" /\ (IdAdopted \/ IdMigrated \/ IdGenerated))
          => StoredAtRest
    /\ (last.op \in {"Config_load", "set_id"} /\ last.wr >= 1) => StoredAtRest

\* C19 amended: a load that migrated a legacy plaintext id or generated a
\* new id has written the record back (adopting the id from enc_id alone
\* causes no write); the part on the written record is as stated.
C19_MigratedOrGeneratedStored ==
    /\ (last.op = "Config_load" /\ (IdMigrated \/ IdGenerated))
          => StoredAtRest
    /\ (last.op \in {"Config_load", "set_id"} /\ last.wr >= 1) => StoredAtRest

\* the legacy id "1" of the file is in memory and the file now holds it
\* encrypted in enc_id only
C19_Witness ==
    /\ last.op = "Config_load"
    /\ IdMigrated
    /\ LoadedFile.id = Str_1
    /\ CONFIG.id = Str_1
    /\ last.wr = 1
    /\ disk.cfg[1].id = EMPTY
    /\ disk.cfg[1].enc_id = encrypt_str_or_original(Str_1, PASSWORD_ENC_VERSION)

----------------------------------------------------------------------------
(* SpecStoreFails: set calls, setters and getters of the three domains     *)
(* while any write of the record store may fail (store_ logs the error).   *)

get_permanent_password(c) == c.password

InitStoreFails ==
    /\ \E p \in PasswordValues :
          CONFIG = [DefaultConfig EXCEPT !.id = Str_1, !.password = p]
    /\ CONFIG2 = DefaultConfig2
    /\ LOCAL_CONFIG = DefaultLocalConfig
    /\ disk = [cfg |-> Some(Config_store(CONFIG)),
               cfg2 |-> Some(Config2_store(CONFIG2)),
               local |-> Some(LocalConfig_store(LOCAL_CONFIG))]
    /\ last = NoCall
    /\ InitKeyIdle /\ InitCodecIdle /\ InitPathIdle /\ InitPeersIdle
    /\ InitRendezvousIdle /\ InitLoadIdle

\* let mut c = Config::get(); c.password = v; Config::set(c)
Call_Config_get_set(oks) ==
    \E v \in PasswordValues, ok \in oks :
        LET cfg == [Config_get(CONFIG) EXCEPT !.password = v]
        IN  CallConfig("Config_set", [NoArg EXCEPT !.cfg = cfg], None,
                       Config_set(CONFIG, cfg), ok)
            /\ UNCHANGED notDom

\* a getter: the cache is read, nothing is written
CallGet(op, arg, r) ==
    /\ last' = [op |-> op, arg |-> arg, pre |-> None, ret |-> <<r>>, wr |-> 0]
    /\ UNCHANGED <<CONFIG, CONFIG2, LOCAL_CONFIG, disk, notDom>>

Call_get_permanent_password ==
    CallGet("get_permanent_password", NoArg, get_permanent_password(CONFIG))

Call_get_option ==
    \E k \in OptionKeys :
        CallGet("get_option", [NoArg EXCEPT !.k = k], get_option(CONFIG2, k))

Call_LocalConfig_get_option ==
    \E k \in OptionKeys :
        CallGet("LocalConfig_get_option", [NoArg EXCEPT !.k = k],
                LocalConfig_get_option(LOCAL_CONFIG, k))

NextStoreFails ==
    \/ Call_Config_get_set(Unreliable)
    \/ Call_set_permanent_password(Unreliable)
    \/ Call_set_nat_type(Unreliable)
    \/ Call_set_option(Unreliable)
    \/ Call_LocalConfig_set_option(Unreliable)
    \/ Call_get_permanent_password
    \/ Call_get_option
    \/ Call_LocalConfig_get_option

SpecStoreFails == InitStoreFails /\ [][NextStoreFails]_vars

----------------------------------------------------------------------------
(* Claims about a failing record store                                     *)

\* one store_path call was made and the file does not hold the record
\* that was handed to it
WriteFailed(obs, fileAfter, stored) == obs.wr = 1 /\ fileAfter # Some(stored)

\* the entry of k an options map is left with by set_option(k, v)
OptionSet(m, k, v) == IF v = EMPTY THEN MapGet(m, k) = None ELSE MapGet(m, k) = Some(v)

\* C20: when the write fails inside Config::set or a setter, the call
\* returns as it does on success, the cache holds the new value, the file
\* is as it was after the single store_path call, and a getter called next
\* returns the new value.
C20_FailedStoreKeepsCache ==
    [][ LET a == last'.arg IN
        /\ (last'.op = "Config_set"
              /\ WriteFailed(last', disk'.cfg, Config_store(a.cfg)))
              => (CONFIG' = a.cfg /\ last'.ret = Bool(TRUE) /\ disk' = disk)
        /\ (last'.op = "set_permanent_password"
              /\ WriteFailed(last', disk'.cfg,
                             Config_store([CONFIG EXCEPT !.password = a.str])))
              => (CONFIG'.password = a.str /\ last'.ret = Unit /\ disk' = disk)
        /\ (last'.op = "set_nat_type"
              /\ WriteFailed(last', disk'.cfg2,
                             Config2_store([CONFIG2 EXCEPT !.nat_type = a.int])))
              => (CONFIG2'.nat_type = a.int /\ last'.ret = Unit /\ disk' = disk)
        /\ (last'.op = "set_option" /\ last'.wr = 1 /\ disk'.cfg2 = disk.cfg2
              /\ disk.cfg2 # Some(Config2_store(CONFIG2')))
              => (OptionSet(CONFIG2'.options, a.k, a.str) /\ last'.ret = Unit)
        /\ (last'.op = "LocalConfig_set_option" /\ last'.wr = 1
              /\ disk'.local = disk.local
              /\ disk.local # Some(LocalConfig_store(LOCAL_CONFIG')))
              => (OptionSet(LOCAL_CONFIG'.options, a.k, a.str) /\ last'.ret = Unit)
        /\ (last'.op = "get_permanent_password"
              /\ last.op \in {"set_permanent_password", "Config_set"})
              => last'.ret = <<IF last.op = "Config_set" THEN last.arg.cfg.password
                                                        ELSE last.arg.str>>
        /\ (last'.op = "get_option" /\ last.op = "set_option" /\ a.k = last.arg.k)
              => last'.ret = <<last.arg.str>>
        /\ (last'.op = "LocalConfig_get_option"
              /\ last.op = "LocalConfig_set_option" /\ a.k = last.arg.k)
              => last'.ret = <<last.arg.str>>
    ]_vars

\* the write of set_permanent_password("p") failed: the file still holds
\* the encryption of the empty password and get_permanent_password gave "p"
C20_Witness ==
    /\ last.op = "get_permanent_password"
    /\ last.ret = <<Str_p>>
    /\ CONFIG.password = Str_p
    /\ disk.cfg # None
    /\ disk.cfg[1].password = encrypt_str_or_original(EMPTY, PASSWORD_ENC_VERSION)

----------------------------------------------------------------------------
(* SpecDefaults: the four loads (Identity, network options, local options, *)
(* one peer profile) on files that are missing, do not deserialize, or are *)
(* well-formed.                                                            *)

\* Config2::load: the record and whether it is stored
Config2_load(file) ==
    LET c == load_(file, DefaultConfig2) IN
    IF c.socks = None THEN [config |-> c, store |-> FALSE]
    ELSE LET d == decrypt_str_or_original(c.socks[1].password, PASSWORD_ENC_VERSION)
         IN  [config |-> [c EXCEPT !.socks = Some([c.socks[1] EXCEPT !.password = d[1]])],
              store |-> d[3]]

LocalConfig_load(file) == load_(file, DefaultLocalConfig)

\* what a file holds: nothing (missing), undeserializable text, a record
FileKinds == {"missing", "garbage", "record"}

FileOf(kind, record) ==
    IF kind = "missing" THEN None
    ELSE IF kind = "garbage" THEN Some(Garbage) ELSE Some(record)

GoodConfig ==
    [DefaultConfig EXCEPT !.enc_id = encrypt_str_or_original(Str_2, PASSWORD_ENC_VERSION),
                          !.salt = Str_s]

GoodConfig2 == [DefaultConfig2 EXCEPT !.nat_type = 1, !.socks = Some(Socks1)]

GoodLocalConfig == [options |-> [k \in OptionKeys |-> Str_a]]

GoodPeerConfig == [DefaultPeerConfig EXCEPT !.info.platform = Str_linux]

PeerFileOf(kind) ==
    IF kind = "missing" THEN {}
    ELSE {[path |-> PeerConfig_path(Str_a), t |-> 0, owner |-> Str_a,
           cfg |-> IF kind = "garbage" THEN Garbage ELSE GoodPeerConfig]}

InitDefaults ==
    /\ CONFIG = DefaultConfig
    /\ CONFIG2 = DefaultConfig2
    /\ LOCAL_CONFIG = DefaultLocalConfig
    /\ \E k1 \in FileKinds, k2 \in FileKinds :
          /\ disk = [cfg |-> FileOf(k1, GoodConfig), cfg2 |-> FileOf(k2, GoodConfig2),
                     local |-> FileOf(k2, GoodLocalConfig)]
          /\ peerFiles = PeerFileOf(k2)
    /\ clock = 0
    /\ listing = NoListing
    /\ last = NoCall
    /\ loadv = NoLoad
    /\ InitKeyIdle /\ InitCodecIdle /\ InitPathIdle /\ InitRendezvousIdle

notDefaults ==
    <<KEY_PAIR, keyLock, rw, pc, frame, ret, spawned, gens, codec, pathv,
      clock, listing, ONLINE, PROD_RENDEZVOUS_SERVER>>

Call_Config2_load(oks) ==
    \E ok \in oks :
        LET r == Config2_load(disk.cfg2)
            stores == IF r.store THEN <<Config2_store(r.config)>> ELSE << >>
        IN  /\ CallConfig2("Config2_load", NoArg, None,
                           Outcome(r.config, stores, Unit), ok)
            /\ UNCHANGED <<notDefaults, peerFiles, loadv>>

Call_LocalConfig_load ==
    /\ CallLocalConfig("LocalConfig_load", NoArg, None,
                       Outcome(LocalConfig_load(disk.local), << >>, Unit), TRUE)
    /\ UNCHANGED <<notDefaults, peerFiles, loadv>>

Call_PeerConfig_load ==
    LET r == PeerConfig_load(peerFiles, Str_a, clock) IN
    /\ peerFiles' = r.files
    /\ last' = [op |-> "PeerConfig_load", arg |-> [NoArg EXCEPT !.str = Str_a],
                pre |-> None, ret |-> <<r.config>>, wr |-> 0]
    /\ UNCHANGED <<CONFIG, CONFIG2, LOCAL_CONFIG, disk, notDefaults, loadv>>

NextDefaults ==
    \/ Call_Config_load(Writable)
    \/ Call_Config2_load(Writable)
    \/ Call_LocalConfig_load
    \/ Call_PeerConfig_load

SpecDefaults == InitDefaults /\ [][NextDefaults]_vars

\* the file is missing or does not deserialize
Unreadable(file) == file = None \/ file = Some(Garbage)

\* C21: a load of a missing or undeserializable file gives the default
\* record and returns; the Identity load then resolves the id of the default
\* record as an untrusted one: get_auto_id is called, and the loaded record
\* is the default one with the generated id, if any.
C21_DefaultOnUnreadable ==
    [][ /\ (last'.op = "Config2_load" /\ Unreadable(disk.cfg2))
              => (CONFIG2' = DefaultConfig2 /\ last'.ret = Unit)
        /\ (last'.op = "LocalConfig_load" /\ Unreadable(disk.local))
              => (LOCAL_CONFIG' = DefaultLocalConfig /\ last'.ret = Unit)
        /\ (last'.op = "PeerConfig_load"
              /\ \A f \in peerFiles : f.path = PeerConfig_path(last'.arg.str)
                                         => f.cfg = Garbage)
              => last'.ret = <<DefaultPeerConfig>>
        /\ (last'.op = "Config_load" /\ Unreadable(disk.cfg))
              => /\ loadv'.tries >= 1
                 /\ last'.ret = Unit
                 /\ CONFIG' = [DefaultConfig EXCEPT !.id =
                        IF get_auto_id(loadv'.macs[loadv'.tries]) = None THEN EMPTY
                        ELSE get_auto_id(loadv'.macs[loadv'.tries])[1]]
    ]_vars

\* the Identity file did not deserialize, the file is older than the
\* executable, and the second address lookup gave the id of the record
C21_Witness ==
    /\ last.op = "Config_load"
    /\ loadv.file = Some(Garbage)
    /\ loadv.mtime - GRACE < loadv.exe_time
    /\ loadv.tries = 2
    /\ CONFIG = [DefaultConfig EXCEPT !.id = <<50, 53, 56>>]
    /\ peerFiles = PeerFileOf("garbage")

----------------------------------------------------------------------------
(* SpecProfile: PeerConfig::store and PeerConfig::load of the profiles of  *)
(* two peers; a profile file may predate the encryption of its secrets.    *)
(* listing holds the last call: the id, and the profile given or returned. *)

ProfileIds == {Str_a, Str_a \o <<47>>}

SecretOptions == {"rdp_password", "os-password"}

ProfileValues ==
    {[password |-> pw, options |-> o, info |-> [platform |-> Str_linux]] :
        pw \in {EMPTY, Str_p},
        o \in {<< >>, [k \in {"rdp_password"} |-> Str_a],
               [k \in {"os-password"} |-> Str_b],
               [k \in SecretOptions |-> IF k = "rdp_password" THEN Str_a ELSE Str_b]}}

\* a file written before the secrets were encrypted, one written by
\* PeerConfig::store, and one with only the password encrypted
LegacyFiles ==
    ProfileValues \cup {PeerConfig_at_rest(p) : p \in ProfileValues}
        \cup {[p EXCEPT !.password = encrypt_vec_or_original(@, PASSWORD_ENC_VERSION)] :
                 p \in ProfileValues}

InitProfile ==
    /\ \E c \in LegacyFiles :
          peerFiles = {[path |-> PeerConfig_path(Str_a), cfg |-> c, t |-> 0,
                        owner |-> Str_a]}
    /\ clock = 0
    /\ listing = NoListing
    /\ InitDomIdle /\ InitKeyIdle /\ InitCodecIdle /\ InitPathIdle
    /\ InitRendezvousIdle /\ InitLoadIdle

ProfileCall(op, id, c) ==
    listing' = [pc |-> op, before |-> {}, failed |-> {},
                result |-> <<[id |-> id, t |-> clock, c |-> c]>>]

ProfileStore ==
    \E id \in ProfileIds, self \in ProfileValues :
        /\ peerFiles' = PeerConfig_store(peerFiles, self, id, clock)
        /\ ProfileCall("stored", id, self)
        /\ UNCHANGED <<clock, notPeers>>

ProfileLoad ==
    \E id \in ProfileIds :
        LET r == PeerConfig_load(peerFiles, id, clock) IN
        /\ peerFiles' = r.files
        /\ ProfileCall("loaded", id, r.config)
        /\ UNCHANGED <<clock, notPeers>>

NextProfile == ProfileStore \/ ProfileLoad

SpecProfile == InitProfile /\ [][NextProfile]_vars

\* the three secrets of a profile, an absent option as None
Secrets(c) ==
    <<c.password, MapGet(c.options, "rdp_password"), MapGet(c.options, "os-password")>>

\* s is the at-rest form of the plaintext x
EncryptedAs(s, x) ==
    LET d == decrypt_str_or_original(s, PASSWORD_ENC_VERSION) IN d[2] /\ d[1] = x

\* every secret of the record c is at rest in f in encrypted form
SecretsEncrypted(f, c) ==
    /\ EncryptedAs(f.password, c.password)
    /\ \A k \in SecretOptions \cap DOMAIN c.options :
          k \in DOMAIN f.options /\ EncryptedAs(f.options[k], c.options[k])

\* s is a non-empty string that is not ciphertext
PlainSecret(s) == s # EMPTY /\ ~decrypt_str_or_original(s, PASSWORD_ENC_VERSION)[2]

\* C22: after PeerConfig::store(id, p) the file of id holds the three
\* secrets of p encrypted, and a PeerConfig::load(id) that follows returns
\* the secrets of p; a load of a file holding one of the secrets as
\* non-empty plaintext leaves the file with the secrets encrypted.
C22_ProfileSecretsRoundTrip ==
    [][ LET call == listing'.result[1]
            path == PeerConfig_path(call.id) IN
        /\ listing'.pc = "stored"
              => /\ Exists(peerFiles', path)
                 /\ SecretsEncrypted(FileAt(peerFiles', path).cfg, call.c)
        /\ (listing'.pc = "loaded" /\ listing.pc = "stored"
              /\ listing.result[1].id = call.id)
              => Secrets(call.c) = Secrets(listing.result[1].c)
        /\ (listing'.pc = "loaded" /\ Exists(peerFiles, path)
              /\ LET f == FileAt(peerFiles, path).cfg IN
                 \/ PlainSecret(f.password)
                 \/ \E k \in SecretOptions \cap DOMAIN f.options :
                       PlainSecret(f.options[k]))
              => /\ FileAt(peerFiles', path).cfg # FileAt(peerFiles, path).cfg
                 /\ SecretsEncrypted(FileAt(peerFiles', path).cfg, call.c)
    ]_vars

\* the file held the password encrypted and "rdp_password" in plaintext;
\* the load returned both and left both encrypted
C22_Witness ==
    /\ listing.pc = "loaded"
    /\ listing.result[1].id = Str_a
    /\ listing.result[1].c.password = Str_p
    /\ listing.result[1].c.options = [k \in {"rdp_password"} |-> Str_a]
    /\ \E f \in peerFiles :
          /\ f.path = PeerConfig_path(Str_a)
          /\ f.cfg = PeerConfig_at_rest(listing.result[1].c)
          /\ f.cfg.options["rdp_password"] # Str_a

----------------------------------------------------------------------------
(* SpecLocks: the KEY_PAIR mutex, the RwLock of CONFIG and the lazy        *)
(* initialisation of CONFIG (lazy_static: the first thread to use CONFIG   *)
(* runs Config::load, the others wait for it).  Config::load decrypts the  *)
(* secrets of the record, and the secret codec obtains its key with        *)
(* get_key_pair (the comment at config.rs:686).  Each caller thread runs   *)
(* one call: get_key_pair, an Identity getter (read lock) or an Identity   *)
(* setter (write lock); the last thread is the background persist thread   *)
(* of get_key_pair.                                                        *)

LockThreads == 1..(NThreads + 1)

PersistThread == NThreads + 1

CallerProgs == {"get_key_pair", "reader", "writer"}

\* RwLock implementations: new readers pass a waiting writer, or wait for it
LockPolicies == {"readers", "writers"}

\* mutant: the guard of KEY_PAIR is not dropped on return
Mutex_kept(holder, t) == holder

\* the MutexGuard `lock` goes out of scope
Mutex_released(holder, t) == IF holder = t THEN 0 ELSE holder

IsWriter(f) == f.prog \in {"writer", "persist"}

\* a thread requests the write lock
WriterWaiting == \E u \in LockThreads : pc[u] = "c_acquire" /\ IsWriter(frame[u])

\* CONFIG.read() may return
CanRead(t) ==
    /\ rw.writer = 0
    /\ rw.policy = "writers" => ~WriterWaiting

\* CONFIG.write() may return
CanWrite(t) == rw.writer = 0 /\ \A u \in LockThreads : rw.readers[u] = 0

InitLocks ==
    /\ \E present \in BOOLEAN, kp \in {EmptyKeyPair, KeyPair0} :
          LET c == [DefaultConfig EXCEPT !.id = Str_1, !.key_pair = kp] IN
          /\ disk = [cfg |-> IF present THEN Some(Config_store(c)) ELSE None,
                     cfg2 |-> None, local |-> None]
          /\ CONFIG = IF present THEN c ELSE [c EXCEPT !.key_pair = EmptyKeyPair]
    /\ CONFIG2 = DefaultConfig2
    /\ LOCAL_CONFIG = DefaultLocalConfig
    /\ last = NoCall
    /\ KEY_PAIR = None
    /\ keyLock = 0
    /\ \E policy \in LockPolicies, init \in {"uninit", "done"} :
          rw = [init |-> init, by |-> 0, policy |-> policy,
                readers |-> [t \in LockThreads |-> 0], writer |-> 0]
    /\ \E progs \in [Threads -> CallerProgs] :
          /\ frame = [t \in LockThreads |->
                        [prog |-> IF t = PersistThread THEN "persist" ELSE progs[t],
                         ctx |-> "top", key_pair |-> EmptyKeyPair]]
          /\ pc = [t \in LockThreads |->
                     IF t = PersistThread THEN "unborn"
                     ELSE IF progs[t] = "get_key_pair" THEN "k_wait" ELSE "c_touch"]
    /\ ret = [t \in LockThreads |-> None]
    /\ spawned = {}
    /\ gens = << >>
    /\ InitCodecIdle /\ InitPathIdle /\ InitPeersIdle
    /\ InitRendezvousIdle /\ InitLoadIdle

notLocks == <<CONFIG2, LOCAL_CONFIG, last, codec, pathv, peerFiles, clock, listing,
              ONLINE, PROD_RENDEZVOUS_SERVER, loadv, ret, spawned, gens>>

\* the first use of CONFIG: this thread runs Config::load, which calls
\* get_key_pair
lk_deref_init(t) ==
    /\ pc[t] = "c_touch"
    /\ rw.init = "uninit"
    /\ rw' = [rw EXCEPT !.init = "running", !.by = t]
    /\ frame' = [frame EXCEPT ![t].ctx = "init"]
    /\ pc' = [pc EXCEPT ![t] = "k_wait"]
    /\ UNCHANGED <<KEY_PAIR, keyLock, CONFIG, disk, notLocks>>

\* CONFIG is initialised (a thread arriving during the load waits here)
lk_deref_ready(t) ==
    /\ pc[t] = "c_touch"
    /\ rw.init = "done"
    /\ pc' = [pc EXCEPT ![t] = "c_acquire"]
    /\ UNCHANGED <<KEY_PAIR, keyLock, rw, frame, CONFIG, disk, notLocks>>

\* let mut lock = KEY_PAIR.lock().unwrap();
lk_key_lock(t) ==
    /\ pc[t] = "k_wait"
    /\ Mutex_available(keyLock)
    /\ keyLock' = t
    /\ pc' = [pc EXCEPT ![t] = "k_locked"]
    /\ UNCHANGED <<KEY_PAIR, rw, frame, CONFIG, disk, notLocks>>

\* if let Some(p) = lock.as_ref() { return p.clone(); }
lk_key_hit(t) ==
    /\ pc[t] = "k_locked"
    /\ KEY_PAIR # None
    /\ keyLock' = Mutex_released(keyLock, t)
    /\ pc' = [pc EXCEPT ![t] = "k_ret"]
    /\ UNCHANGED <<KEY_PAIR, rw, frame, CONFIG, disk, notLocks>>

\* Config::load_, and on an empty stored key gen_keypair and thread::spawn
lk_key_miss(t) ==
    /\ pc[t] = "k_locked"
    /\ KEY_PAIR = None
    /\ LET k == load_(disk.cfg, DefaultConfig).key_pair IN
       IF k[1] = EMPTY
       THEN \E kp \in GenPairs :
               /\ frame' = [frame EXCEPT ![t].key_pair = kp,
                                         ![PersistThread].key_pair = kp]
               /\ pc' = [pc EXCEPT ![t] = "k_ready", ![PersistThread] = "c_touch"]
       ELSE /\ frame' = [frame EXCEPT ![t].key_pair = k]
            /\ pc' = [pc EXCEPT ![t] = "k_ready"]
    /\ UNCHANGED <<KEY_PAIR, keyLock, rw, CONFIG, disk, notLocks>>

\* *lock = Some(config.key_pair.clone()); return config.key_pair;
lk_key_set(t) ==
    /\ pc[t] = "k_ready"
    /\ KEY_PAIR' = cache_populated(frame[t].key_pair)
    /\ keyLock' = Mutex_released(keyLock, t)
    /\ pc' = [pc EXCEPT ![t] = "k_ret"]
    /\ UNCHANGED <<rw, frame, CONFIG, disk, notLocks>>

\* get_key_pair has returned: to its caller, or into Config::load, which
\* completes the initialisation of CONFIG
lk_key_ret(t) ==
    /\ pc[t] = "k_ret"
    /\ IF frame[t].ctx = "init"
       THEN /\ rw' = [rw EXCEPT !.init = "done"]
            /\ frame' = [frame EXCEPT ![t].ctx = "top"]
            /\ pc' = [pc EXCEPT ![t] = "c_acquire"]
       ELSE /\ pc' = [pc EXCEPT ![t] = "done"]
            /\ UNCHANGED <<rw, frame>>
    /\ UNCHANGED <<KEY_PAIR, keyLock, CONFIG, disk, notLocks>>

\* CONFIG.read().unwrap() / CONFIG.write().unwrap()
lk_acquire(t) ==
    /\ pc[t] = "c_acquire"
    /\ IF IsWriter(frame[t])
       THEN CanWrite(t) /\ rw' = [rw EXCEPT !.writer = t]
       ELSE CanRead(t) /\ rw' = [rw EXCEPT !.readers[t] = @ + 1]
    /\ pc' = [pc EXCEPT ![t] = "c_held"]
    /\ UNCHANGED <<KEY_PAIR, keyLock, frame, CONFIG, disk, notLocks>>

\* the accessor does its work and its guard is dropped; the persist thread
\* writes the pair into the record and stores it
lk_release(oks) ==
    \E t \in LockThreads, ok \in oks :
        /\ pc[t] = "c_held"
        /\ rw' = IF IsWriter(frame[t]) THEN [rw EXCEPT !.writer = 0]
                 ELSE [rw EXCEPT !.readers[t] = @ - 1]
        /\ IF frame[t].prog = "persist"
           THEN /\ CONFIG' = [CONFIG EXCEPT !.key_pair = frame[t].key_pair]
                /\ disk' = [disk EXCEPT !.cfg = store_(@, <<Config_store(CONFIG')>>, ok)]
           ELSE UNCHANGED <<CONFIG, disk>>
        /\ pc' = [pc EXCEPT ![t] = "done"]
        /\ UNCHANGED <<KEY_PAIR, keyLock, frame, notLocks>>

NextLocks ==
    \/ \E t \in LockThreads : lk_deref_init(t)
    \/ \E t \in LockThreads : lk_deref_ready(t)
    \/ \E t \in LockThreads : lk_key_lock(t)
    \/ \E t \in LockThreads : lk_key_hit(t)
    \/ \E t \in LockThreads : lk_key_miss(t)
    \/ \E t \in LockThreads : lk_key_set(t)
    \/ \E t \in LockThreads : lk_key_ret(t)
    \/ \E t \in LockThreads : lk_acquire(t)
    \/ lk_release(Writable)

SpecLocks == InitLocks /\ [][NextLocks]_vars

\* C23: while a thread has not finished its call some thread can take a
\* step; the holder of KEY_PAIR is inside get_key_pair, not at CONFIG; and
\* the persist thread does not hold KEY_PAIR when it requests or holds the
\* write lock of CONFIG.
C23_NoDeadlock ==
    /\ (\E t \in LockThreads : pc[t] \notin {"done", "unborn"}) => ENABLED NextLocks
    /\ keyLock # 0 => pc[keyLock] \in {"k_locked", "k_ready"}
    /\ pc[PersistThread] \in {"c_touch", "c_acquire", "c_held"}
          => keyLock # PersistThread

\* the persist thread is the first to use CONFIG and, inside Config::load,
\* waits for KEY_PAIR, which the thread that spawned it still holds
C23_Witness ==
    /\ rw.init = "running" /\ rw.by = PersistThread
    /\ pc[PersistThread] = "k_wait"
    /\ keyLock \in Threads /\ pc[keyLock] = "k_ready"
    /\ \E t \in Threads : pc[t] = "c_touch"

----------------------------------------------------------------------------
(* SpecPeerLock: PeerConfig::load under the RwLock of CONFIG, with threads *)
(* that call an Identity setter.  load holds CONFIG.read() for its whole   *)
(* body (`_lock`), and PeerConfig::store, which load calls for a profile   *)
(* that needs a rewrite, takes CONFIG.read() again.  CONFIG is initialised.*)

PeerProgs == {"peer_load", "writer"}

\* `if store { config.store(id); }` is reached with store = true
peer_load_stores(files, id, now) == PeerConfig_load(files, id, now).files # files

InitPeerLock ==
    /\ \E c \in {[DefaultPeerConfig EXCEPT !.password = Str_p],
                 PeerConfig_at_rest([DefaultPeerConfig EXCEPT !.password = Str_p])} :
          peerFiles = {[path |-> PeerConfig_path(Str_a), cfg |-> c, t |-> 0,
                        owner |-> Str_a]}
    /\ clock = 0
    /\ listing = NoListing
    /\ InitDomIdle
    /\ KEY_PAIR = None
    /\ keyLock = 0
    /\ \E policy \in LockPolicies :
          rw = [init |-> "done", by |-> 0, policy |-> policy,
                readers |-> [t \in LockThreads |-> 0], writer |-> 0]
    /\ \E progs \in [Threads -> PeerProgs] :
          /\ frame = [t \in LockThreads |->
                        [prog |-> IF t = PersistThread THEN "persist" ELSE progs[t],
                         ctx |-> "top", key_pair |-> EmptyKeyPair]]
          /\ pc = [t \in LockThreads |->
                     IF t = PersistThread THEN "unborn"
                     ELSE IF progs[t] = "peer_load" THEN "p_acquire" ELSE "c_touch"]
    /\ ret = [t \in LockThreads |-> None]
    /\ spawned = {}
    /\ gens = << >>
    /\ InitCodecIdle /\ InitPathIdle /\ InitRendezvousIdle /\ InitLoadIdle

notPeerLock ==
    <<CONFIG, CONFIG2, LOCAL_CONFIG, disk, last, KEY_PAIR, keyLock, frame, spawned,
      gens, codec, pathv, clock, listing, ONLINE, PROD_RENDEZVOUS_SERVER, loadv>>

\* PeerConfig::load: let _lock = CONFIG.read().unwrap();
pl_read_lock(t) ==
    /\ pc[t] = "p_acquire"
    /\ CanRead(t)
    /\ rw' = [rw EXCEPT !.readers[t] = @ + 1]
    /\ pc' = [pc EXCEPT ![t] = "p_load"]
    /\ UNCHANGED <<peerFiles, ret, notPeerLock>>

\* confy::load_path and the decryption of the three fields
pl_load(t) ==
    /\ pc[t] = "p_load"
    /\ ret' = [ret EXCEPT ![t] = Some(PeerConfig_load(peerFiles, Str_a, clock).config)]
    /\ pc' = [pc EXCEPT ![t] = IF peer_load_stores(peerFiles, Str_a, clock)
                               THEN "p_store_acquire" ELSE "p_unlock"]
    /\ UNCHANGED <<peerFiles, rw, notPeerLock>>

\* PeerConfig::store: let _lock = CONFIG.read().unwrap();
pl_store_lock(t) ==
    /\ pc[t] = "p_store_acquire"
    /\ CanRead(t)
    /\ rw' = [rw EXCEPT !.readers[t] = @ + 1]
    /\ pc' = [pc EXCEPT ![t] = "p_store"]
    /\ UNCHANGED <<peerFiles, ret, notPeerLock>>

\* PeerConfig::store writes the file and drops its guard
pl_store(t) ==
    /\ pc[t] = "p_store"
    /\ peerFiles' = PeerConfig_store(peerFiles, ret[t][1], Str_a, clock)
    /\ rw' = [rw EXCEPT !.readers[t] = @ - 1]
    /\ pc' = [pc EXCEPT ![t] = "p_unlock"]
    /\ UNCHANGED <<ret, notPeerLock>>

\* PeerConfig::load returns and drops `_lock`
pl_unlock(t) ==
    /\ pc[t] = "p_unlock"
    /\ rw' = [rw EXCEPT !.readers[t] = @ - 1]
    /\ pc' = [pc EXCEPT ![t] = "done"]
    /\ UNCHANGED <<peerFiles, ret, notPeerLock>>

\* a thread calls the setter
pl_write_call(t) == lk_deref_ready(t)

\* the setter: CONFIG.write().unwrap()
pl_write_lock(t) == lk_acquire(t)

\* the setter returns
pl_write_unlock == lk_release(Writable)

NextPeerLock ==
    \/ \E t \in Threads : pl_read_lock(t)
    \/ \E t \in Threads : pl_load(t)
    \/ \E t \in Threads : pl_store_lock(t)
    \/ \E t \in Threads : pl_store(t)
    \/ \E t \in Threads : pl_unlock(t)
    \/ \E t \in Threads : pl_write_call(t)
    \/ \E t \in Threads : pl_write_lock(t)
    \/ pl_write_unlock

\* every thread that can take a step eventually takes one
SpecPeerLock == InitPeerLock /\ [][NextPeerLock]_vars /\ WF_vars(NextPeerLock)

\* C24: every PeerConfig::load call returns.
C24_LoadTerminates ==
    <>(\A t \in Threads : frame[t].prog = "peer_load" => pc[t] = "done")

----------------------------------------------------------------------------
(* SpecKeyStable: get_key_pair called again and again, its background      *)
(* persist, and callers that read and write the Identity record in         *)
(* between: a field setter, Config::get, and Config::set with a clone that *)
(* an earlier Config::get returned, one field changed.                     *)

Call_Config_get == CallGet("Config_get", NoArg, Config_get(CONFIG))

\* let mut c = Config::get(); ...; c.salt = v; Config::set(c)
Call_Config_set_clone(oks) ==
    \E v \in SaltValues, ok \in oks :
        /\ last.op = "Config_get"
        /\ LET cfg == [last.ret[1] EXCEPT !.salt = v]
           IN  CallConfig("Config_set", [NoArg EXCEPT !.cfg = cfg], None,
                          Config_set(CONFIG, cfg), ok)
        /\ UNCHANGED notDom

NextKeyStable ==
    \/ \E t \in Threads : gkp_call(t)
    \/ \E t \in Threads : gkp_lock(t)
    \/ \E t \in Threads : gkp_hit(t)
    \/ \E t \in Threads : gkp_load(t)
    \/ \E t \in Threads : gkp_generate(t)
    \/ \E t \in Threads : gkp_keep(t)
    \/ \E t \in Threads : gkp_return(t)
    \/ persist_key_pair(Writable)
    \/ Call_set_id(Writable)
    \/ Call_Config_get
    \/ Call_Config_set_clone(Writable)

SpecKeyStable == InitKeyPair /\ [][NextKeyStable]_vars

\* C25: a call of get_key_pair that returns after some call has returned
\* a pair returns that pair.
C25_PairStable ==
    [][\A t, u \in Threads :
          (ret[u] # None /\ ret'[t] # None) => ret'[t] = ret[u]]_vars

\* a call returned the generated pair from the cache after Config::set had
\* put a record without that pair into the Identity cache
C25_Witness ==
    /\ Len(gens) = 1 /\ spawned = {}
    /\ last.op = "Config_set" /\ CONFIG.key_pair # gens[1].pair
    /\ \E t \in Threads :
          /\ pc[t] = "done" /\ frame[t].hit = Some(gens[1].pair)
          /\ ret[t] = Some(gens[1].pair)

\* C28: after the background persist of a generated pair has completed, the
\* key_pair of the cached Identity record and of its stored form equals the
\* pair in the keypair cache.
C28_RecordHoldsCachedPair ==
    (Len(gens) > 0 /\ spawned = {} /\ KEY_PAIR # None)
        => /\ Some(CONFIG.key_pair) = KEY_PAIR
           /\ Some(load_(disk.cfg, DefaultConfig).key_pair) = KEY_PAIR

----------------------------------------------------------------------------
(* SpecAutoId: Config::get_auto_id on a desktop build, applied to hardware *)
(* addresses, and Config::get_id, which generates an id from it when the   *)
(* cached id is empty.                                                     *)

ID_MASK == 536870911                                    \* 0x1FFFFFFF

\* results of mac_address::get_mac_address(): no address, or six bytes
MacInputs ==
    {None} \cup {Some(<<2, 0, b3, b4, b5, b6>>) :
                    b3 \in {0, 32, 255}, b4 \in {0, 255}, b5 \in {0, 255},
                    b6 \in {0, 1, 255}}

\* mutant: the cached id is not looked at
get_id_always_generates(c, ma) ==
    IF get_auto_id(ma) # None
    THEN LET s == set_id(c, get_auto_id(ma)[1])
         IN  Outcome(s.cache, s.stores, <<get_auto_id(ma)[1]>>)
    ELSE Outcome(c, << >>, <<c.id>>)

\* Config::get_id, ma being what get_mac_address returns if it is called
get_id(c, ma) ==
    IF c.id # EMPTY THEN Outcome(c, << >>, <<c.id>>)
    ELSE IF get_auto_id(ma) # None
    THEN LET s == set_id(c, get_auto_id(ma)[1])
         IN  Outcome(s.cache, s.stores, <<get_auto_id(ma)[1]>>)
    ELSE Outcome(c, << >>, <<c.id>>)

InitAutoId ==
    /\ \E id \in IdValues : CONFIG = [DefaultConfig EXCEPT !.id = id]
    /\ CONFIG2 = DefaultConfig2
    /\ LOCAL_CONFIG = DefaultLocalConfig
    /\ disk = [cfg |-> Some(Config_store(CONFIG)), cfg2 |-> None, local |-> None]
    /\ last = NoCall
    /\ InitKeyIdle /\ InitCodecIdle /\ InitPathIdle /\ InitPeersIdle
    /\ InitRendezvousIdle /\ InitLoadIdle

Call_get_auto_id ==
    \E ma \in MacInputs :
        /\ last' = [op |-> "get_auto_id", arg |-> NoArg, pre |-> ma,
                    ret |-> <<get_auto_id(ma)>>, wr |-> 0]
        /\ UNCHANGED <<CONFIG, CONFIG2, LOCAL_CONFIG, disk, notDom>>

Call_get_id(oks) ==
    \E ma \in MacInputs, ok \in oks :
        CallConfig("get_id", NoArg, ma, get_id(CONFIG, ma), ok) /\ UNCHANGED notDom

NextAutoId ==
    \/ Call_get_auto_id
    \/ Call_get_id(Writable)
    \/ Call_set_id(Writable)

SpecAutoId == InitAutoId /\ [][NextAutoId]_vars

\* the integer a decimal string denotes
RECURSIVE from_decimal(_)
from_decimal(s) ==
    IF s = << >> THEN 0
    ELSE from_decimal(SubSeq(s, 1, Len(s) - 1)) * 10 + (s[Len(s)] - 48)

\* C26: for every hardware address get_auto_id returns the decimal form of
\* a strictly positive integer below 2^29.
C26_AutoIdPositive ==
    (last.op = "get_auto_id" /\ last.pre # None)
        => /\ last.ret[1] # None
           /\ from_decimal(last.ret[1][1]) > 0
           /\ from_decimal(last.ret[1][1]) <= ID_MASK

\* C27: get_id with an empty cached id and a hardware address returns a
\* new non-empty id that the cache and the stored record then hold; with no
\* hardware address it returns "" and changes neither; with a non-empty
\* cached id it returns that id and changes nothing.
C27_LazyId ==
    [][ last'.op = "get_id" =>
          IF CONFIG.id # EMPTY
          THEN last'.ret = <<CONFIG.id>> /\ CONFIG' = CONFIG /\ disk' = disk
               /\ last'.wr = 0
          ELSE IF last'.pre # None
          THEN /\ last'.ret[1] # EMPTY
               /\ last'.ret[1] = get_auto_id(last'.pre)[1]
               /\ CONFIG'.id = last'.ret[1]
               /\ disk'.cfg = Some(Config_store(CONFIG'))
               /\ decrypt_str_or_original(load_(disk'.cfg, DefaultConfig).enc_id,
                                          PASSWORD_ENC_VERSION)[1] = last'.ret[1]
          ELSE last'.ret = <<EMPTY>> /\ CONFIG' = CONFIG /\ disk' = disk
               /\ last'.wr = 0
      ]_vars

\* get_id generated an id from a hardware address and stored it
C27_Witness ==
    /\ last.op = "get_id" /\ last.pre # None /\ last.wr = 1
    /\ CONFIG.id = last.ret[1] /\ CONFIG.id # EMPTY
    /\ disk.cfg = Some(Config_store(CONFIG))

----------------------------------------------------------------------------
(* SpecSalt: threads calling Config::get_salt.  The read of the cached     *)
(* salt (under CONFIG.read()), the generation of a salt and set_salt       *)
(* (under CONFIG.write()) are three steps of a call.                       *)

\* values Config::get_auto_password(6) may return
GenSalts == {Str_s, Str_a, Str_b}

InitSalt ==
    /\ \E salt \in SaltValues :
          CONFIG = [DefaultConfig EXCEPT !.id = Str_1, !.salt = salt]
    /\ CONFIG2 = DefaultConfig2
    /\ LOCAL_CONFIG = DefaultLocalConfig
    /\ disk = [cfg |-> Some(Config_store(CONFIG)), cfg2 |-> None, local |-> None]
    /\ last = NoCall
    /\ KEY_PAIR = None
    /\ keyLock = 0
    /\ rw = NoLocks
    /\ pc = [t \in Threads |-> "idle"]
    /\ frame = [t \in Threads |-> [salt |-> EMPTY]]
    /\ ret = [t \in Threads |-> None]
    /\ spawned = {}
    /\ gens = << >>
    /\ InitCodecIdle /\ InitPathIdle /\ InitPeersIdle
    /\ InitRendezvousIdle /\ InitLoadIdle

notSalt == <<CONFIG2, LOCAL_CONFIG, KEY_PAIR, keyLock, rw, spawned, gens, codec, pathv,
             peerFiles, clock, listing, ONLINE, PROD_RENDEZVOUS_SERVER, loadv>>

\* a thread calls get_salt (again): let mut salt = CONFIG.read().unwrap().salt.clone();
gs_read(t) ==
    /\ pc[t] \in {"idle", "done"}
    /\ frame' = [frame EXCEPT ![t].salt = CONFIG.salt]
    /\ pc' = [pc EXCEPT ![t] = "read"]
    /\ UNCHANGED <<CONFIG, disk, last, ret, notSalt>>

\* !salt.is_empty(): the cached salt is returned
gs_cached(t) ==
    /\ pc[t] = "read"
    /\ frame[t].salt # EMPTY
    /\ ret' = [ret EXCEPT ![t] = Some(frame[t].salt)]
    /\ pc' = [pc EXCEPT ![t] = "done"]
    /\ UNCHANGED <<CONFIG, disk, last, frame, notSalt>>

\* salt = Config::get_auto_password(6);
gs_generate(t) ==
    /\ pc[t] = "read"
    /\ frame[t].salt = EMPTY
    /\ \E salt \in GenSalts : frame' = [frame EXCEPT ![t].salt = salt]
    /\ pc' = [pc EXCEPT ![t] = "generated"]
    /\ UNCHANGED <<CONFIG, disk, last, ret, notSalt>>

\* Config::set_salt(&salt); salt
gs_set(oks) ==
    \E t \in Threads, ok \in oks :
        /\ pc[t] = "generated"
        /\ CallConfig("set_salt", [NoArg EXCEPT !.str = frame[t].salt], None,
                      set_salt(CONFIG, frame[t].salt), ok)
        /\ ret' = [ret EXCEPT ![t] = Some(frame[t].salt)]
        /\ pc' = [pc EXCEPT ![t] = "done"]
        /\ UNCHANGED <<frame, KEY_PAIR, keyLock, rw, spawned, gens, codec, pathv,
                       peerFiles, clock, listing, ONLINE, PROD_RENDEZVOUS_SERVER,
                       loadv>>

NextSalt ==
    \/ \E t \in Threads : gs_read(t)
    \/ \E t \in Threads : gs_cached(t)
    \/ \E t \in Threads : gs_generate(t)
    \/ gs_set(Writable)

SpecSalt == InitSalt /\ [][NextSalt]_vars

\* C29: when all get_salt calls have returned, every returned value is the
\* salt in the Identity cache.
C29_ReturnedSaltIsCached ==
    (\A t \in Threads : pc[t] = "done")
        => \A t \in Threads : ret[t] = Some(CONFIG.salt)

----------------------------------------------------------------------------
(* SpecLatencyRace: threads calling update_latency.  The insert and the    *)
(* scan each take the ONLINE mutex for one statement, and the write-back   *)
(* takes CONFIG2.write(): three steps of a call.  Hosts are non-empty and  *)
(* latencies strictly positive and below i64::MAX.                         *)

RaceHosts == {Str_ha, Str_hb}

RaceLatencies == {20, 50}

InitLatencyRace ==
    /\ CONFIG2 = DefaultConfig2
    /\ PROD_RENDEZVOUS_SERVER = EMPTY
    /\ ONLINE = << >>
    /\ CONFIG = DefaultConfig
    /\ LOCAL_CONFIG = DefaultLocalConfig
    /\ disk = [cfg |-> None, cfg2 |-> Some(Config2_store(CONFIG2)), local |-> None]
    /\ last = NoCall
    /\ KEY_PAIR = None
    /\ keyLock = 0
    /\ rw = NoLocks
    /\ pc = [t \in Threads |-> "idle"]
    /\ frame = [t \in Threads |-> [host |-> EMPTY]]
    /\ ret = [t \in Threads |-> None]
    /\ spawned = {}
    /\ gens = << >>
    /\ InitCodecIdle /\ InitPathIdle /\ InitPeersIdle /\ InitLoadIdle

notLatencyRace ==
    <<CONFIG, LOCAL_CONFIG, KEY_PAIR, keyLock, rw, ret, spawned, gens, codec, pathv,
      peerFiles, clock, listing, PROD_RENDEZVOUS_SERVER, loadv>>

\* ONLINE.lock().unwrap().insert(host.to_owned(), latency);
ul_insert(t) ==
    /\ pc[t] \in {"idle", "done"}
    /\ \E host \in RaceHosts, latency \in RaceLatencies :
          ONLINE' \in OnlineInsert(ONLINE, host, latency)
    /\ pc' = [pc EXCEPT ![t] = "inserted"]
    /\ UNCHANGED <<CONFIG2, disk, last, frame, notLatencyRace>>

\* for (tmp_host, tmp_delay) in ONLINE.lock().unwrap().iter() { .. }
ul_scan(t) ==
    /\ pc[t] = "inserted"
    /\ frame' = [frame EXCEPT ![t].host = scan_online(ONLINE, EMPTY, I64_MAX)[1]]
    /\ pc' = [pc EXCEPT ![t] = "scanned"]
    /\ UNCHANGED <<ONLINE, CONFIG2, disk, last, notLatencyRace>>

\* update_latency from `if !host.is_empty()` on, host being the scan's result
write_back(c, host) ==
    IF host # EMPTY /\ host # c.rendezvous_server
    THEN LET n == [c EXCEPT !.rendezvous_server = host]
         IN  Outcome(n, <<Config2_store(n)>>, Unit)
    ELSE Outcome(c, << >>, Unit)

ul_write(oks) ==
    \E t \in Threads, ok \in oks :
        /\ pc[t] = "scanned"
        /\ CallConfig2("update_latency", [NoArg EXCEPT !.str = frame[t].host], None,
                       write_back(CONFIG2, frame[t].host), ok)
        /\ pc' = [pc EXCEPT ![t] = "done"]
        /\ UNCHANGED <<ONLINE, frame, KEY_PAIR, keyLock, rw, ret, spawned, gens, codec,
                       pathv, peerFiles, clock, listing, PROD_RENDEZVOUS_SERVER,
                       loadv>>

NextLatencyRace ==
    \/ \E t \in Threads : ul_insert(t)
    \/ \E t \in Threads : ul_scan(t)
    \/ ul_write(Writable)

SpecLatencyRace == InitLatencyRace /\ [][NextLatencyRace]_vars

\* C30: when all update_latency calls have returned and the table holds a
\* strictly positive latency, the persisted rendezvous_server is a host
\* with the smallest strictly positive latency of the table.
C30_BestHostAfterAll ==
    ((\A t \in Threads : pc[t] = "done") /\ PositiveLatencies(ONLINE) # {})
        => CONFIG2.rendezvous_server \in BestHosts(ONLINE)

----------------------------------------------------------------------------
(* SpecConfirm: the key confirmation flags of the Identity record, set     *)
(* through set_key_confirmed and set_host_key_confirmed, one call after    *)
(* the other, from a default Identity.                                     *)

ConfirmHosts == {"h1", "h2"}

\* if let Some(true) = keys_confirmed.get(host) { true } else { false }
get_host_key_confirmed(c, host) ==
    host \in DOMAIN c.keys_confirmed /\ c.keys_confirmed[host]

\* config.keys_confirmed.insert(host.to_owned(), v); config.store();
host_key_inserted(c, host, v) ==
    LET n == [c EXCEPT !.keys_confirmed = MapInsert(@, host, v)]
    IN  Outcome(n, <<Config_store(n)>>, Unit)

\* Config::set_host_key_confirmed, run without interruption
set_host_key_confirmed(c, host, v) ==
    IF get_host_key_confirmed(c, host) = v THEN Outcome(c, << >>, Unit)
    ELSE host_key_inserted(c, host, v)

InitConfirm ==
    /\ CONFIG = DefaultConfig
    /\ CONFIG2 = DefaultConfig2
    /\ LOCAL_CONFIG = DefaultLocalConfig
    /\ disk = [cfg |-> None, cfg2 |-> None, local |-> None]
    /\ last = NoCall
    /\ InitKeyIdle /\ InitCodecIdle /\ InitPathIdle /\ InitPeersIdle
    /\ InitRendezvousIdle /\ InitLoadIdle

Call_set_host_key_confirmed(oks) ==
    \E host \in ConfirmHosts, v \in BOOLEAN, ok \in oks :
        CallConfig("set_host_key_confirmed", [NoArg EXCEPT !.k = host, !.bool = v],
                   None, set_host_key_confirmed(CONFIG, host, v), ok)
        /\ UNCHANGED notDom

Call_get_host_key_confirmed ==
    \E host \in ConfirmHosts :
        CallGet("get_host_key_confirmed", [NoArg EXCEPT !.k = host],
                get_host_key_confirmed(CONFIG, host))

NextConfirm ==
    \/ Call_set_key_confirmed(Writable)
    \/ Call_set_host_key_confirmed(Writable)
    \/ Call_get_host_key_confirmed

SpecConfirm == InitConfirm /\ [][NextConfirm]_vars

\* C31: while key_confirmed is false, get_host_key_confirmed(h) is false
\* for every host h.
C31_NoHostWithoutKey ==
    ~CONFIG.key_confirmed
        => /\ \A h \in ConfirmHosts : ~get_host_key_confirmed(CONFIG, h)
           /\ last.op = "get_host_key_confirmed" => last.ret = <<FALSE>>

----------------------------------------------------------------------------
(* A further claim about the peer profile directory (SpecPeers)            *)

\* C32: PeerConfig::peers() deletes no file of a profile that
\* PeerConfig::store wrote with a non-empty platform.
C32_StoredProfileKept ==
    listing.pc = "listed" =>
        \A f \in listing.before :
            f.cfg.info.platform # EMPTY => Exists(peerFiles, f.path)

----------------------------------------------------------------------------
(* A further claim about the latency self-tuning (SpecLatency)             *)

\* C33: update_latency changes nothing but the latency table and the
\* rendezvous_server field of the network options; reset_online changes
\* only the latency table.
C33_LatencyFrame ==
    [][ /\ last'.op = "update_latency" =>
              /\ CONFIG2' = [CONFIG2 EXCEPT
                                !.rendezvous_server = CONFIG2'.rendezvous_server]
              /\ CONFIG' = CONFIG /\ LOCAL_CONFIG' = LOCAL_CONFIG
              /\ disk'.cfg = disk.cfg /\ disk'.local = disk.local
              /\ disk'.cfg2 \in {disk.cfg2, Some(Config2_store(CONFIG2'))}
        /\ last'.op = "reset_online" =>
              /\ CONFIG2' = CONFIG2 /\ CONFIG' = CONFIG
              /\ LOCAL_CONFIG' = LOCAL_CONFIG /\ disk' = disk
              /\ ONLINE' = << >>
    ]_vars

\* update_latency has replaced the persisted rendezvous_server of a record
\* that holds a user override, a NAT type and a proxy
C33_Witness ==
    /\ last.op = "update_latency" /\ last.wr = 1
    /\ CONFIG2.rendezvous_server = last.arg.str
    /\ CONFIG2.options # << >> /\ CONFIG2.nat_type = 1 /\ CONFIG2.socks = Some(Socks1)
    /\ disk.cfg2 = Some(Config2_store(CONFIG2))

----------------------------------------------------------------------------
(* SpecConfirmRace: threads calling set_host_key_confirmed(host, v) with   *)
(* the same host and the same v.  The test through get_host_key_confirmed  *)
(* (under CONFIG.read()) and the insert with the store (under              *)
(* CONFIG.write()) are two steps of a call.  gens is the log of the        *)
(* records handed to the record store.                                     *)

InitConfirmRace ==
    /\ \E kc \in BOOLEAN, m \in {<< >>, [h \in {"h1"} |-> TRUE]} :
          CONFIG = [DefaultConfig EXCEPT !.key_confirmed = kc, !.keys_confirmed = m]
    /\ CONFIG2 = DefaultConfig2
    /\ LOCAL_CONFIG = DefaultLocalConfig
    /\ disk = [cfg |-> Some(Config_store(CONFIG)), cfg2 |-> None, local |-> None]
    /\ last = NoCall
    /\ KEY_PAIR = None
    /\ keyLock = 0
    /\ rw = NoLocks
    /\ pc = [t \in Threads |-> "idle"]
    /\ \E host \in ConfirmHosts, v \in BOOLEAN :
          frame = [t \in Threads |->
                     [host |-> host, v |-> v, equal |-> FALSE,
                      cached |-> get_host_key_confirmed(CONFIG, host)]]
    /\ ret = [t \in Threads |-> None]
    /\ spawned = {}
    /\ gens = << >>
    /\ InitCodecIdle /\ InitPathIdle /\ InitPeersIdle
    /\ InitRendezvousIdle /\ InitLoadIdle

notConfirmRace ==
    <<CONFIG2, LOCAL_CONFIG, KEY_PAIR, keyLock, rw, spawned, codec, pathv, peerFiles,
      clock, listing, ONLINE, PROD_RENDEZVOUS_SERVER, loadv>>

\* if Self::get_host_key_confirmed(host) == v
hk_check(t) ==
    /\ pc[t] = "idle"
    /\ frame' = [frame EXCEPT ![t].equal =
                    (get_host_key_confirmed(CONFIG, frame[t].host) = frame[t].v)]
    /\ pc' = [pc EXCEPT ![t] = "checked"]
    /\ UNCHANGED <<CONFIG, disk, last, ret, gens, notConfirmRace>>

\* { return; }
hk_return(t) ==
    /\ pc[t] = "checked"
    /\ frame[t].equal
    /\ ret' = [ret EXCEPT ![t] = Some(0)]
    /\ pc' = [pc EXCEPT ![t] = "done"]
    /\ UNCHANGED <<CONFIG, disk, last, frame, gens, notConfirmRace>>

\* let mut config = CONFIG.write().unwrap(); insert; config.store();
hk_write(oks) ==
    \E t \in Threads, ok \in oks :
        LET o == host_key_inserted(CONFIG, frame[t].host, frame[t].v) IN
        /\ pc[t] = "checked"
        /\ ~frame[t].equal
        /\ CallConfig("set_host_key_confirmed",
                      [NoArg EXCEPT !.k = frame[t].host, !.bool = frame[t].v], None,
                      o, ok)
        /\ gens' = gens \o o.stores
        /\ ret' = [ret EXCEPT ![t] = Some(Len(o.stores))]
        /\ pc' = [pc EXCEPT ![t] = "done"]
        /\ UNCHANGED <<frame, KEY_PAIR, keyLock, rw, spawned, codec, pathv, peerFiles,
                       clock, listing, ONLINE, PROD_RENDEZVOUS_SERVER, loadv>>

NextConfirmRace ==
    \/ \E t \in Threads : hk_check(t)
    \/ \E t \in Threads : hk_return(t)
    \/ hk_write(Writable)

SpecConfirmRace == InitConfirmRace /\ [][NextConfirmRace]_vars

\* C34: when the calls, made with a v that differs from the cached value,
\* have all returned, the Identity record has been stored exactly once.
C34_StoredOnce ==
    ( /\ \A t \in Threads : pc[t] = "done"
      /\ \A t \in Threads : frame[t].cached # frame[t].v )
        => Len(gens) = 1

====
